---- MODULE Spec2Model ----
(***************************************************************************)
(* Easy-motion ("jump to a typed label") of the editor: the label trie     *)
(* builder, the incremental resolver, the per-view and cross-view session  *)
(* state and the multi-view coordinator.                                   *)
(*                                                                         *)
(* crates/easy_motion/src/easy_motion.rs holds the workspace-level         *)
(* handlers.  Its sub-modules perm.rs (TrieBuilder, TrimResult),           *)
(* editor_state.rs (EditorState, Selection, OverlayState), util.rs         *)
(* (sort_matches_display, sort_matches_pixel) and search.rs are modelled   *)
(* from their description in spec.md sections 3 and 4.                     *)
(***************************************************************************)
EXTENDS Integers, Sequences, FiniteSets, TLC

\* ------------------------------------------------------------------ bounds
\* Document positions of the label-engine specification SpecTrie.
TrieMaxPoint == 5
\* Document positions per view of the session specification Spec.
MaxPoint == 3
\* Search tasks in flight at once.
MaxTasks == 2
\* Largest n of an n-char action.
MaxNChar == 2
\* Longest pattern query recorded.
MaxQuery == 1
\* Handlers run in one behaviour.
MaxSteps == 6

\* ------------------------------------------------------------- arithmetic
RECURSIVE Pow(_, _)
Pow(b, e) == IF e = 0 THEN 1 ELSE b * Pow(b, e - 1)

RECURSIVE depth_from(_, _, _)
depth_from(K, n, d) == IF Pow(K, d) >= n THEN d ELSE depth_from(K, n, d + 1)

\* ceil(log_K(n)) for K >= 2, n >= 1: the baseline depth of spec.md 4.2 step 2.
depth_for(K, n) == depth_from(K, n, 1)

IsPrefix(s, t) == Len(s) <= Len(t) /\ SubSeq(t, 1, Len(s)) = s

Abs(x) == IF x < 0 THEN -x ELSE x

SeqToSet(s) == {s[i] : i \in 1..Len(s)}

\* ------------------------------------------------- label trie builder (4.2)
\* The number of first-level keys that head a subtree: as few as the count
\* allows, so that as many of the earliest candidates as possible keep a
\* one-key label ("any shortfall of slots at the shallowest depth given to
\* the prefix keys").
prefix_keys(K, n, d) ==
    CHOOSE p \in 1..K :
        /\ (K - p) + p * Pow(K, d - 1) >= n
        /\ \A q \in 1..(p - 1) : (K - q) + q * Pow(K, d - 1) < n

\* TrieBuilder::new(keys, len): the key-index sequences of the len labels, in
\* priority order.  len <= K: the first len keys (step 1).  Otherwise the
\* first K - p keys are leaves and the last p keys head subtrees built by the
\* same procedure (step 2); the later subtrees are full, the first takes the
\* rest.  A trie over one key has one leaf, whatever its depth: for K = 1 only
\* the first candidate receives a label.
RECURSIVE sequences(_, _)
sequences(K, n) ==
    IF n <= K THEN [i \in 1..n |-> <<i>>]
    ELSE IF K = 1 THEN << <<1>> >>
    ELSE LET d == depth_for(K, n)
             cap == Pow(K, d - 1)
             p == prefix_keys(K, n, d)
             leaves == K - p
             first == n - leaves - (p - 1) * cap
             sub(j) == IF j = 1 THEN sequences(K, first) ELSE sequences(K, cap)
         IN [i \in 1..n |->
               IF i <= leaves THEN <<i>>
               ELSE LET r == i - leaves
                        j == IF r <= first THEN 1 ELSE 2 + ((r - first - 1) \div cap)
                        off == IF j = 1 THEN r ELSE r - first - (j - 2) * cap
                    IN <<leaves + j>> \o sub(j)[off]]

\* The label spelled with the alphabet's keys.
label_of(keys, ixs) == [i \in 1..Len(ixs) |-> keys[ixs[i]]]

\* TrieBuilder::populate_with(true, matches, func), as both callers invoke
\* it: the i-th label is paired with the i-th match; the caller's func(label,
\* match) then makes the leaf's overlay.  The trie is the set of its leaves.
populate_with(keys, matches) ==
    LET seqs == sequences(Len(keys), Len(matches))
    IN {[seq |-> label_of(keys, seqs[i]), item |-> matches[i]] : i \in 1..Len(seqs)}

\* ------------------------------------------------------ candidate ordering
\* util::sort_matches_display (spec.md 4.1, single view): ascending distance
\* from the cursor, ties broken by the earlier document position.
display_before(a, b, cursor) ==
    \/ Abs(a - cursor) < Abs(b - cursor)
    \/ Abs(a - cursor) = Abs(b - cursor) /\ a < b

RECURSIVE sort_matches_display(_, _)
sort_matches_display(matches, cursor) ==
    IF matches = {} THEN <<>>
    ELSE LET m == CHOOSE a \in matches :
                      \A b \in matches \ {a} : display_before(a, b, cursor)
         IN <<m>> \o sort_matches_display(matches \ {m}, cursor)

\* The on-screen pixel position of a document position shown in a pane
\* (search::get_word_task pairs every match with one): panes lie side by side.
pixel_of(pane, point) == (pane - 1) * (MaxPoint + 1) + point

\* util::sort_matches_pixel (spec.md 4.1, multi view): ascending distance of
\* the match's pixel position from the cursor's, ties broken by input order.
pixel_before(list, i, j, cursor) ==
    \/ Abs(list[i].pixel - cursor) < Abs(list[j].pixel - cursor)
    \/ Abs(list[i].pixel - cursor) = Abs(list[j].pixel - cursor) /\ i < j

RECURSIVE pixel_order(_, _, _)
pixel_order(list, cursor, idxs) ==
    IF idxs = {} THEN <<>>
    ELSE LET i == CHOOSE a \in idxs :
                      \A b \in idxs \ {a} : pixel_before(list, a, b, cursor)
         IN <<list[i]>> \o pixel_order(list, cursor, idxs \ {i})

sort_matches_pixel(list, cursor) == pixel_order(list, cursor, 1..Len(list))

\* --------------------------------------------------- editor_state.rs values
NoEditor == 0
Directions == {"BiDirectional", "Forwards"}

EditorState(tag, n, chars, direction, trie, typed) ==
    [tag |-> tag, n |-> n, chars |-> chars, direction |-> direction,
     trie |-> trie, typed |-> typed]

\* EditorState::None, the default.
StateNone == EditorState("None", 0, <<>>, "BiDirectional", {}, <<>>)
\* EditorState::PendingSearch.
PendingSearch == EditorState("PendingSearch", 0, <<>>, "BiDirectional", {}, <<>>)
\* EditorState::new_n_char(n, direction).
new_n_char(n, direction) == EditorState("NCharInput", n, <<>>, direction, {}, <<>>)
\* EditorState::new_pattern(direction).
new_pattern(direction) == EditorState("Pattern", 0, <<>>, direction, {}, <<>>)
\* EditorState::new_selection(trie): the full trie and an empty typed prefix.
new_selection(trie) == EditorState("Selection", 0, <<>>, "BiDirectional", trie, <<>>)

\* Option<EditorState>::None of the cross-view slot.
NoState == EditorState("absent", 0, <<>>, "BiDirectional", {}, <<>>)

\* EditorState::easy_motion_controlled.
easy_motion_controlled(state) == state.tag # "None"

\* EditorState::keymap_context_layer: the context names the kind of state.
keymap_context_layer(state) == state.tag

\* Selection::trie: the leaves that remain under the typed prefix.
remaining(state) == {o \in state.trie : IsPrefix(state.typed, o.seq)}

\* Selection::record_str (spec.md 4.3, consume): the result and the selection.
record_str(selection, keys) ==
    LET new == selection.typed \o <<keys>>
        hit == {o \in selection.trie : o.seq = new}
        below == {o \in selection.trie : IsPrefix(new, o.seq) /\ o.seq # new}
    IN IF keys = "" THEN [res |-> "NoChange", selection |-> selection, found |-> {}]
       ELSE IF hit # {} THEN [res |-> "Found", selection |-> selection, found |-> hit]
       ELSE IF below # {}
            THEN [res |-> "Changed", selection |-> [selection EXCEPT !.typed = new],
                  found |-> {}]
       ELSE [res |-> "Err", selection |-> selection, found |-> {}]

\* NCharInput::record_str: ShowTrie(query) once n keys are recorded.
n_char_record_str(char_input, keys) ==
    LET chars == char_input.chars \o <<keys>>
    IN IF Len(chars) >= char_input.n
       THEN [res |-> "ShowTrie", query |-> chars, state |-> char_input]
       ELSE [res |-> "Recording", query |-> chars,
             state |-> [char_input EXCEPT !.chars = chars]]

\* Pattern::record_str: the key is appended to the query.
pattern_record_str(pattern, keys) == [pattern EXCEPT !.chars = @ \o <<keys>>]

\* ------------------------------------------------------- the host's editor
\* What the feature reads and writes of an Editor view: the newest cursor, the
\* overlays, the dimming highlight, the keymap context layer of type
\* EasyMotion ("none": no layer; otherwise the context it was set to) and
\* whether the cursor blinks.
NewEditor(cursor) ==
    [cursor |-> cursor, overlays |-> {}, highlights |-> FALSE, keymap |-> "none",
     blink |-> TRUE]

\* An editor view that was released: nothing of it is left.
Released ==
    [cursor |-> 0, overlays |-> {}, highlights |-> FALSE, keymap |-> "none",
     blink |-> FALSE]
\* WeakView::upgrade: a handle to a released view no longer upgrades.
upgrade(ed) == ed # Released

clear_overlays(ed) == [ed EXCEPT !.overlays = {}]
clear_highlights(ed) == [ed EXCEPT !.highlights = FALSE]
remove_keymap_context_layer(ed) == [ed EXCEPT !.keymap = "none"]
set_keymap_context_layer(ed, ctx) == [ed EXCEPT !.keymap = ctx]
highlight_text(ed) == [ed EXCEPT !.highlights = TRUE]
change_selections(ed, point) == [ed EXCEPT !.cursor = point]

\* The three teardown calls the handlers make together on one editor.
clear_all(ed) == remove_keymap_context_layer(clear_highlights(clear_overlays(ed)))

\* The style tier of a label: the match on seq.len() in handle_new_matches.
style_for(seq) == IF Len(seq) <= 1 THEN 0 ELSE IF Len(seq) = 2 THEN 1 ELSE 2

\* EasyMotion::add_overlays: one overlay per (seq, overlay) of the iterator,
\* added to those the editor already shows.
add_overlays(ed, trie_iter) ==
    [ed EXCEPT !.overlays =
        @ \cup {[text |-> o.seq, point |-> o.overlay.point, style |-> o.overlay.style] :
                    o \in trie_iter}]

\* ------------------------------------------------------------------ state
VARIABLES
    keys,            \* EasyMotion.keys: the alphabet, a sequence of distinct keys
    dimming,         \* EasyMotion.dimming
    vim_keys,        \* vim's EasyMotion.keys: the alphabet of the settings
    active_editor,   \* EasyMotion.active_editor: an editor id or NoEditor
    editor_states,   \* EasyMotion.editor_states: editor id -> EditorState
    multipane_state, \* EasyMotion.multipane_state: NoState or an EditorState
    panes,           \* the workspace's panes: the active item of each
    editors,         \* editor id -> the host's editor (cursor, overlays, ...)
    focus,           \* the item the workspace last activated
    tasks,           \* the search tasks in flight, in the order they were spawned
    crashed,         \* a handler panicked
    steps,           \* the number of handlers run so far
    vim_states,      \* vim's EasyMotion.editor_states: editor id -> state or NoState
    vim_mode,        \* Vim's mode: "Normal" or "EasyMotion"
    ev               \* the handler that ran last and what it saw (history)

vars == <<keys, dimming, vim_keys, active_editor, editor_states, multipane_state, panes,
          editors, focus, tasks, crashed, steps, vim_states, vim_mode, ev>>

EditorIds == {1, 2}
\* A pane shows an editor or an item that is no editor (NoEditor).
Layouts == {<<1>>, <<2>>, <<1, 2>>, <<1, NoEditor>>}
\* Keys a keystroke event may carry: a key of some alphabet, one of none, and
\* the empty string.
OtherKey == "x"
NoKey == ""
Alphabet == <<"a", "s", "d", "f">>
Alphabets == {SubSeq(Alphabet, 1, k) : k \in 1..Len(Alphabet)}
KeyInputs == SeqToSet(keys) \cup {OtherKey, NoKey}

\* active_editor_views(workspace): the editors that are the active item of a pane.
active_editor_views(ps) == {ps[i] : i \in 1..Len(ps)} \ {NoEditor}
\* workspace.is_split()
is_split(ps) == Len(ps) > 1
\* workspace_has_multiple_editors(workspace)
workspace_has_multiple_editors(ps) == Cardinality(active_editor_views(ps)) >= 2
\* editors_with_bounding_boxes(workspace): every visible editor with its pane.
editors_with_bounding_boxes(ps) ==
    LET all == [i \in 1..Len(ps) |-> [id |-> ps[i], pane |-> i]]
    IN SelectSeq(all, LAMBDA x : x.id # NoEditor)

\* EasyMotion::latest_state
latest_state ==
    IF multipane_state # NoState THEN multipane_state
    ELSE IF active_editor # NoEditor THEN editor_states[active_editor]
    ELSE StateNone

\* The history record of a handler run.
Ev(op) ==
    [op |-> op, mode |-> "none", key |-> NoKey, res |-> "none", editor |-> NoEditor,
     typed |-> <<>>, cancelled |-> FALSE, superseded |-> FALSE, matches |-> {}]

Task(kind, editor, eds, cursor, direction, query) ==
    [kind |-> kind, editor |-> editor, editors |-> eds, cursor |-> cursor,
     direction |-> direction, query |-> query, cancelled |-> FALSE,
     superseded |-> FALSE]

RemoveAt(s, i) == [j \in 1..(Len(s) - 1) |-> IF j < i THEN s[j] ELSE s[j + 1]]

\* History only: the tasks of a scope that a Cancel or a new operation of the
\* same scope leaves behind.
MarkTasks(ts, kind, editor, field) ==
    [i \in 1..Len(ts) |->
        IF ts[i].kind = kind /\ (kind = "multi" \/ ts[i].editor = editor)
        THEN IF field = "cancelled" THEN [ts[i] EXCEPT !.cancelled = TRUE]
             ELSE [ts[i] EXCEPT !.superseded = TRUE]
        ELSE ts[i]]

\* ---------------------------------------------------------------- handlers
\* A faulty handle_new_matches: the match farthest from the cursor is left
\* without a label.
handle_new_matches_short(matches, direction, ed, entity_id) ==
    IF matches = {} THEN [state |-> StateNone, ed |-> ed]
    ELSE LET sorted == sort_matches_display(matches, ed.cursor)
             Func(seq, point) ==
                 [style |-> style_for(seq), point |-> point, editor_id |-> entity_id]
             trie == {[seq |-> l.seq, overlay |-> Func(l.seq, l.item)] :
                         l \in populate_with(keys, SubSeq(sorted, 1, Len(sorted) - 1))}
             shown == add_overlays(ed, trie)
         IN [state |-> new_selection(trie),
             ed |-> IF dimming THEN highlight_text(shown) ELSE shown]

\* A faulty handle_new_matches: the matches are labelled in document order,
\* not sorted from the cursor.
handle_new_matches_unsorted(matches, direction, ed, entity_id) ==
    IF matches = {} THEN [state |-> StateNone, ed |-> ed]
    ELSE LET sorted == sort_matches_display(matches, 0)
             Func(seq, point) ==
                 [style |-> style_for(seq), point |-> point, editor_id |-> entity_id]
             trie == {[seq |-> l.seq, overlay |-> Func(l.seq, l.item)] :
                         l \in populate_with(keys, sorted)}
             shown == add_overlays(ed, trie)
         IN [state |-> new_selection(trie),
             ed |-> IF dimming THEN highlight_text(shown) ELSE shown]

\* A faulty handle_new_matches: the sorted matches are labelled last to first.
handle_new_matches_reversed(matches, direction, ed, entity_id) ==
    IF matches = {} THEN [state |-> StateNone, ed |-> ed]
    ELSE LET sorted == sort_matches_display(matches, ed.cursor)
             Func(seq, point) ==
                 [style |-> style_for(seq), point |-> point, editor_id |-> entity_id]
             trie == {[seq |-> l.seq, overlay |-> Func(l.seq, l.item)] :
                         l \in populate_with(keys,
                                    [i \in 1..Len(sorted) |-> sorted[Len(sorted) + 1 - i]])}
             shown == add_overlays(ed, trie)
         IN [state |-> new_selection(trie),
             ed |-> IF dimming THEN highlight_text(shown) ELSE shown]

\* A faulty handle_new_matches: no more matches are labelled than the
\* alphabet has keys.
handle_new_matches_one_level(matches, direction, ed, entity_id) ==
    IF matches = {} THEN [state |-> StateNone, ed |-> ed]
    ELSE LET sorted == sort_matches_display(matches, ed.cursor)
             Func(seq, point) ==
                 [style |-> style_for(seq), point |-> point, editor_id |-> entity_id]
             trie == {[seq |-> l.seq, overlay |-> Func(l.seq, l.item)] :
                         l \in populate_with(keys,
                                    SubSeq(sorted, 1,
                                           IF Len(sorted) < Len(keys) THEN Len(sorted)
                                           ELSE Len(keys)))}
             shown == add_overlays(ed, trie)
         IN [state |-> new_selection(trie),
             ed |-> IF dimming THEN highlight_text(shown) ELSE shown]

\* A faulty handle_new_matches: the nearest match is handed to the builder
\* twice.
handle_new_matches_twice(matches, direction, ed, entity_id) ==
    IF matches = {} THEN [state |-> StateNone, ed |-> ed]
    ELSE LET sorted == sort_matches_display(matches, ed.cursor)
             Func(seq, point) ==
                 [style |-> style_for(seq), point |-> point, editor_id |-> entity_id]
             trie == {[seq |-> l.seq, overlay |-> Func(l.seq, l.item)] :
                         l \in populate_with(keys, sorted \o <<sorted[1]>>)}
             shown == add_overlays(ed, trie)
         IN [state |-> new_selection(trie),
             ed |-> IF dimming THEN highlight_text(shown) ELSE shown]

\* A faulty handle_new_matches: a selection is made of no matches too.
handle_new_matches_of_none(matches, direction, ed, entity_id) ==
    LET sorted == sort_matches_display(matches, ed.cursor)
        Func(seq, point) ==
            [style |-> style_for(seq), point |-> point, editor_id |-> entity_id]
        trie == {[seq |-> l.seq, overlay |-> Func(l.seq, l.item)] :
                    l \in populate_with(keys, sorted)}
        shown == add_overlays(ed, trie)
    IN [state |-> new_selection(trie),
        ed |-> IF dimming THEN highlight_text(shown) ELSE shown]

\* EasyMotion::handle_new_matches: no trie for no matches; otherwise the
\* matches are sorted from the cursor, labelled, shown and (with dimming) the
\* text is dimmed.
handle_new_matches(matches, direction, ed, entity_id) ==
    IF matches = {} THEN [state |-> StateNone, ed |-> ed]
    ELSE LET sorted == sort_matches_display(matches, ed.cursor)
             Func(seq, point) ==
                 [style |-> style_for(seq), point |-> point, editor_id |-> entity_id]
             trie == {[seq |-> l.seq, overlay |-> Func(l.seq, l.item)] :
                         l \in populate_with(keys, sorted)}
             shown == add_overlays(ed, trie)
         IN [state |-> new_selection(trie),
             ed |-> IF dimming THEN highlight_text(shown) ELSE shown]

\* A faulty handle_trim: Changed redraws the overlays but stores the selection
\* as it was before the key.
handle_trim_hold(selection, key, ed) ==
    LET r == record_str(selection, key)
    IN CASE r.res = "Found" ->
              LET overlay == CHOOSE o \in r.found : TRUE
              IN [res |-> r.res, state |-> StateNone,
                  ed |-> clear_all(change_selections(ed, overlay.overlay.point))]
         [] r.res = "Changed" ->
              [res |-> r.res, state |-> selection,
               ed |-> add_overlays(clear_overlays(ed), remaining(r.selection))]
         [] r.res = "Err" ->
              [res |-> r.res, state |-> StateNone, ed |-> clear_all(ed)]
         [] OTHER ->
              [res |-> r.res, state |-> r.selection, ed |-> ed]

\* A faulty handle_trim: Changed adds the remaining overlays to those shown.
handle_trim_no_clear(selection, key, ed) ==
    LET r == record_str(selection, key)
    IN CASE r.res = "Found" ->
              LET overlay == CHOOSE o \in r.found : TRUE
              IN [res |-> r.res, state |-> StateNone,
                  ed |-> clear_all(change_selections(ed, overlay.overlay.point))]
         [] r.res = "Changed" ->
              [res |-> r.res, state |-> r.selection,
               ed |-> add_overlays(ed, remaining(r.selection))]
         [] r.res = "Err" ->
              [res |-> r.res, state |-> StateNone, ed |-> clear_all(ed)]
         [] OTHER ->
              [res |-> r.res, state |-> r.selection, ed |-> ed]

\* A faulty handle_trim: Changed keeps the selection it was given, so the
\* typed prefix is not accumulated.
handle_trim_forget(selection, key, ed) ==
    LET r == record_str(selection, key)
    IN CASE r.res = "Found" ->
              LET overlay == CHOOSE o \in r.found : TRUE
              IN [res |-> r.res, state |-> StateNone,
                  ed |-> clear_all(change_selections(ed, overlay.overlay.point))]
         [] r.res = "Changed" ->
              [res |-> r.res, state |-> selection,
               ed |-> add_overlays(clear_overlays(ed), remaining(r.selection))]
         [] r.res = "Err" ->
              [res |-> r.res, state |-> StateNone, ed |-> clear_all(ed)]
         [] OTHER ->
              [res |-> r.res, state |-> r.selection, ed |-> ed]

\* A faulty handle_trim: Err is handled as NoChange.
handle_trim_ignore_err(selection, key, ed) ==
    LET r == record_str(selection, key)
    IN CASE r.res = "Found" ->
              LET overlay == CHOOSE o \in r.found : TRUE
              IN [res |-> r.res, state |-> StateNone,
                  ed |-> clear_all(change_selections(ed, overlay.overlay.point))]
         [] r.res = "Changed" ->
              [res |-> r.res, state |-> r.selection,
               ed |-> add_overlays(clear_overlays(ed), remaining(r.selection))]
         [] OTHER ->
              [res |-> r.res, state |-> r.selection, ed |-> ed]

\* A faulty handle_trim: Found leaves the keymap context layer in place.
handle_trim_keep_layer(selection, key, ed) ==
    LET r == record_str(selection, key)
    IN CASE r.res = "Found" ->
              LET overlay == CHOOSE o \in r.found : TRUE
              IN [res |-> r.res, state |-> StateNone,
                  ed |-> clear_highlights(clear_overlays(
                             change_selections(ed, overlay.overlay.point)))]
         [] r.res = "Changed" ->
              [res |-> r.res, state |-> r.selection,
               ed |-> add_overlays(clear_overlays(ed), remaining(r.selection))]
         [] r.res = "Err" ->
              [res |-> r.res, state |-> StateNone, ed |-> clear_all(ed)]
         [] OTHER ->
              [res |-> r.res, state |-> r.selection, ed |-> ed]

\* EasyMotion::handle_trim: one key of a single-view selection.
handle_trim(selection, key, ed) ==
    LET r == record_str(selection, key)
    IN CASE r.res = "Found" ->
              LET overlay == CHOOSE o \in r.found : TRUE
              IN [res |-> r.res, state |-> StateNone,
                  ed |-> clear_all(change_selections(ed, overlay.overlay.point))]
         [] r.res = "Changed" ->
              [res |-> r.res, state |-> r.selection,
               ed |-> add_overlays(clear_overlays(ed), remaining(r.selection))]
         [] r.res = "Err" ->
              [res |-> r.res, state |-> StateNone, ed |-> clear_all(ed)]
         [] OTHER ->
              [res |-> r.res, state |-> r.selection, ed |-> ed]

\* A faulty handle_trim_multipane: NoChange takes the overlays of the visible
\* editors down.
handle_trim_multipane_redraw(selection, key, eds, ps, foc) ==
    LET views == active_editor_views(ps)
        r == record_str(selection, key)
    IN CASE r.res = "Found" ->
              LET overlay == CHOOSE o \in r.found : TRUE
                  owner == overlay.overlay.editor_id
              IN IF owner \notin views
                 THEN [res |-> r.res, state |-> StateNone, editors |-> eds, focus |-> foc]
                 ELSE [res |-> r.res, state |-> StateNone, focus |-> owner,
                       editors |->
                          [e \in EditorIds |->
                              IF e \notin views THEN eds[e]
                              ELSE IF e = owner
                                   THEN clear_all(change_selections(eds[e],
                                                                   overlay.overlay.point))
                                   ELSE clear_all(eds[e])]]
         [] r.res = "Changed" ->
              [res |-> r.res, state |-> r.selection, focus |-> foc,
               editors |->
                  [e \in EditorIds |->
                      IF e \notin views THEN eds[e]
                      ELSE add_overlays(clear_overlays(eds[e]),
                                        {o \in remaining(r.selection) :
                                             o.overlay.editor_id = e})]]
         [] r.res = "Err" ->
              [res |-> r.res, state |-> StateNone, focus |-> foc,
               editors |-> [e \in EditorIds |->
                               IF e \in views THEN clear_all(eds[e]) ELSE eds[e]]]
         [] OTHER ->
              [res |-> r.res, state |-> r.selection, focus |-> foc,
               editors |-> [e \in EditorIds |->
                               IF e \in views THEN clear_overlays(eds[e]) ELSE eds[e]]]

\* EasyMotion::handle_trim_multipane: one key of the cross-view selection; the
\* editors it touches are the panes' active editors at the keystroke.
handle_trim_multipane(selection, key, eds, ps, foc) ==
    LET views == active_editor_views(ps)
        r == record_str(selection, key)
    IN CASE r.res = "Found" ->
              LET overlay == CHOOSE o \in r.found : TRUE
                  owner == overlay.overlay.editor_id
              IN IF owner \notin views
                 THEN [res |-> r.res, state |-> StateNone, editors |-> eds, focus |-> foc]
                 ELSE [res |-> r.res, state |-> StateNone, focus |-> owner,
                       editors |->
                          [e \in EditorIds |->
                              IF e \notin views THEN eds[e]
                              ELSE IF e = owner
                                   THEN clear_all(change_selections(eds[e],
                                                                   overlay.overlay.point))
                                   ELSE clear_all(eds[e])]]
         [] r.res = "Changed" ->
              [res |-> r.res, state |-> r.selection, focus |-> foc,
               editors |->
                  [e \in EditorIds |->
                      IF e \notin views THEN eds[e]
                      ELSE add_overlays(clear_overlays(eds[e]),
                                        {o \in remaining(r.selection) :
                                             o.overlay.editor_id = e})]]
         [] r.res = "Err" ->
              [res |-> r.res, state |-> StateNone, focus |-> foc,
               editors |-> [e \in EditorIds |->
                               IF e \in views THEN clear_all(eds[e]) ELSE eds[e]]]
         [] OTHER ->
              [res |-> r.res, state |-> r.selection, focus |-> foc, editors |-> eds]

\* EasyMotion::update_editors: the state's display pushed to each editor.
update_editors(state, dim, views, eds) ==
    [e \in EditorIds |->
        IF e \notin views THEN eds[e]
        ELSE CASE state.tag = "None" ->
                    remove_keymap_context_layer(clear_highlights(eds[e]))
               [] state.tag = "Selection" ->
                    LET shown == add_overlays(
                                     set_keymap_context_layer(eds[e],
                                                              keymap_context_layer(state)),
                                     {o \in remaining(state) : o.overlay.editor_id = e})
                    IN IF dim THEN highlight_text(shown) ELSE shown
               [] state.tag \in {"NCharInput", "Pattern"} ->
                    set_keymap_context_layer(clear_highlights(eds[e]),
                                             keymap_context_layer(state))
               [] OTHER -> eds[e]]

\* The part of process_match_tasks that runs when the joined searches resolve:
\* per_editor[i] is what the i-th editor's search found.  The lists are
\* flattened in the editors' order, sorted from the cursor's pixel position and
\* labelled; an empty result only resets the editors.
RECURSIVE Ascending(_)
Ascending(S) ==
    IF S = {} THEN <<>>
    ELSE LET m == CHOOSE a \in S : \A b \in S : a <= b
         IN <<m>> \o Ascending(S \ {m})

RECURSIVE flatten(_, _, _)
flatten(eds, per_editor, i) ==
    IF i > Len(eds) THEN <<>>
    ELSE LET pts == Ascending(per_editor[i])
         IN [k \in 1..Len(pts) |->
                [point |-> pts[k], id |-> eds[i].id,
                 pixel |-> pixel_of(eds[i].pane, pts[k])]]
            \o flatten(eds, per_editor, i + 1)

\* A faulty join_all: the outputs in the order the futures completed.
join_all_unordered(outputs, order) == [k \in 1..Len(order) |-> outputs[order[k]]]

\* join_all(search_tasks): the futures complete in any order; each output is
\* kept in the slot of its future, so the outputs come in the futures' order.
join_all(outputs, order) ==
    LET done == {[slot |-> order[k], out |-> outputs[order[k]]] : k \in 1..Len(order)}
    IN [i \in 1..Len(outputs) |-> (CHOOSE d \in done : d.slot = i).out]

\* A faulty collect: the lists after an empty one are dropped.
RECURSIVE collect_until_empty(_)
collect_until_empty(lists) ==
    IF lists = <<>> \/ Head(lists) = <<>> THEN <<>>
    ELSE Head(lists) \o collect_until_empty(Tail(lists))

\* .into_iter().flatten().collect(): the lists one after the other.
RECURSIVE collect(_)
collect(lists) ==
    IF lists = <<>> THEN <<>> ELSE Head(lists) \o collect(Tail(lists))

\* order is the order in which the searches of the editors complete.
process_match_tasks(task, per_editor, order, eds) ==
    LET views == {task.editors[i].id : i \in 1..Len(task.editors)}
        outputs == [i \in 1..Len(task.editors) |->
                       flatten(<<task.editors[i]>>, <<per_editor[i]>>, 1)]
        search_matches == collect(join_all(outputs, order))
        matches == sort_matches_pixel(search_matches, task.cursor)
        Func(seq, point) ==
            [style |-> style_for(seq), point |-> point.point, editor_id |-> point.id]
        new_state == new_selection({[seq |-> l.seq, overlay |-> Func(l.seq, l.item)] :
                                        l \in populate_with(keys, matches)})
    IN IF Len(search_matches) = 0
       THEN [state |-> multipane_state,
             editors |-> update_editors(StateNone, FALSE, views, eds)]
       ELSE [state |-> new_state,
             editors |-> update_editors(new_state, dimming, views, eds)]

\* EasyMotion::get_cursor_pixels of the active editor, looked up among the
\* visible editors (the .unwrap() panics when it is not one of them).
active_is_visible == active_editor \in active_editor_views(panes)
cursor_pixels ==
    LET eds == editors_with_bounding_boxes(panes)
        i == CHOOSE k \in 1..Len(eds) : eds[k].id = active_editor
    IN pixel_of(eds[i].pane, editors[active_editor].cursor)

\* ------------------------------------------------------------- operations
Panic(op) ==
    /\ crashed' = TRUE
    /\ ev' = Ev(op)
    /\ UNCHANGED <<keys, dimming, vim_keys, active_editor, editor_states, multipane_state, panes,
                   editors, focus, tasks, vim_states, vim_mode>>

\* EasyMotion::word_single_pane: the active editor's word starts, labelled.
word_single_pane(direction, D) ==
    /\ ~crashed
    /\ active_editor # NoEditor
    /\ upgrade(editors[active_editor])
    /\ \E matches \in D :
          LET r == handle_new_matches(matches, direction, editors[active_editor],
                                      active_editor)
          IN /\ editors' = [editors EXCEPT ![active_editor] =
                               set_keymap_context_layer(r.ed, keymap_context_layer(r.state))]
             /\ editor_states' = [editor_states EXCEPT ![active_editor] = r.state]
             /\ ev' = [Ev("word") EXCEPT !.mode = "single", !.editor = active_editor,
                          !.matches = {[point |-> m, id |-> active_editor] : m \in matches}]
    /\ tasks' = MarkTasks(tasks, "single", active_editor, "superseded")
    /\ UNCHANGED <<keys, dimming, vim_keys, active_editor, multipane_state, panes, focus, crashed, vim_states, vim_mode>>

\* EasyMotion::word_multipane: one search per visible editor, joined off the UI
\* turn; the cross-view slot waits for the result.
word_multipane ==
    /\ ~crashed
    /\ active_editor # NoEditor
    /\ IF ~active_is_visible THEN Panic("word")
       ELSE /\ Len(tasks) < MaxTasks
            /\ tasks' = Append(MarkTasks(tasks, "multi", NoEditor, "superseded"),
                               Task("multi", NoEditor, editors_with_bounding_boxes(panes),
                                    cursor_pixels, "BiDirectional", <<>>))
            /\ multipane_state' = PendingSearch
            /\ ev' = [Ev("word") EXCEPT !.mode = "multi"]
                    /\ UNCHANGED <<keys, dimming, vim_keys, active_editor, editor_states, panes, editors,
                           focus, crashed, vim_states, vim_mode>>

\* EasyMotion::word
word(direction, D) ==
    IF direction = "BiDirectional" /\ is_split(panes) /\ workspace_has_multiple_editors(panes)
    THEN word_multipane
    ELSE word_single_pane(direction, D)

\* EasyMotion::sub_word and EasyMotion::full_word: the cross-view arm is
\* todo!(), which panics; otherwise word_single_pane with the word type.
sub_word(direction, D) ==
    IF direction = "BiDirectional" /\ is_split(panes) /\ workspace_has_multiple_editors(panes)
    THEN ~crashed /\ Panic("sub_word")
    ELSE word_single_pane(direction, D)

full_word(direction, D) ==
    IF direction = "BiDirectional" /\ is_split(panes) /\ workspace_has_multiple_editors(panes)
    THEN ~crashed /\ Panic("full_word")
    ELSE word_single_pane(direction, D)

\* EasyMotion::row_multipane: the body is empty.  The history records the row
\* starts that the visible editors hold, which nothing looks for.
row_multipane(D) ==
    /\ ~crashed
    /\ \E per_editor \in [active_editor_views(panes) -> D] :
          ev' = [Ev("row") EXCEPT !.mode = "multi",
                    !.matches = UNION {{[point |-> m, id |-> e] : m \in per_editor[e]} :
                                          e \in active_editor_views(panes)}]
    /\ UNCHANGED <<keys, dimming, vim_keys, active_editor, editor_states, multipane_state, panes,
                   editors, focus, tasks, crashed, vim_states, vim_mode>>

\* EasyMotion::row_single_pane: the active editor's row starts, labelled.
row_single_pane(direction, D) ==
    /\ ~crashed
    /\ active_editor # NoEditor
    /\ upgrade(editors[active_editor])
    /\ \E matches \in D :
          LET r == handle_new_matches(matches, direction, editors[active_editor],
                                      active_editor)
          IN /\ editors' = [editors EXCEPT ![active_editor] =
                               set_keymap_context_layer(r.ed, keymap_context_layer(r.state))]
             /\ editor_states' = [editor_states EXCEPT ![active_editor] = r.state]
             /\ ev' = [Ev("row") EXCEPT !.mode = "single", !.editor = active_editor,
                          !.matches = {[point |-> m, id |-> active_editor] : m \in matches}]
    /\ tasks' = MarkTasks(tasks, "single", active_editor, "superseded")
    /\ UNCHANGED <<keys, dimming, vim_keys, active_editor, multipane_state, panes, focus, crashed,
                   vim_states, vim_mode>>

\* EasyMotion::row
row(direction, D) ==
    IF direction = "BiDirectional" /\ is_split(panes) /\ workspace_has_multiple_editors(panes)
    THEN row_multipane(D)
    ELSE row_single_pane(direction, D)

\* EasyMotion::simple_action: the state of an n-char or pattern action, stored
\* in the cross-view slot of a split workspace, else for the active editor.
simple_action(new_state, op) ==
    /\ ~crashed
    /\ IF is_split(panes) /\ workspace_has_multiple_editors(panes)
       THEN /\ editors' = update_editors(new_state, TRUE, active_editor_views(panes),
                                         editors)
            /\ multipane_state' = new_state
            /\ tasks' = MarkTasks(tasks, "multi", NoEditor, "superseded")
            /\ ev' = [Ev(op) EXCEPT !.mode = "multi"]
            /\ UNCHANGED <<keys, dimming, vim_keys, active_editor, editor_states, panes, focus,
                           crashed, vim_states, vim_mode>>
       ELSE /\ active_editor # NoEditor
            /\ upgrade(editors[active_editor])
            /\ editors' = [editors EXCEPT ![active_editor] =
                              set_keymap_context_layer(@, keymap_context_layer(new_state))]
            /\ editor_states' = [editor_states EXCEPT ![active_editor] = new_state]
            /\ tasks' = MarkTasks(tasks, "single", active_editor, "superseded")
            /\ ev' = [Ev(op) EXCEPT !.mode = "single", !.editor = active_editor]
            /\ UNCHANGED <<keys, dimming, vim_keys, active_editor, multipane_state, panes, focus,
                           crashed, vim_states, vim_mode>>

\* EasyMotion::n_char
n_char(n, direction) == simple_action(new_n_char(n, direction), "n_char")

\* EasyMotion::pattern
pattern(direction) == simple_action(new_pattern(direction), "pattern")

\* A faulty show_trie_from_query: the search is started for the empty query.
show_trie_from_query_blank(query, direction, entity_id, started) ==
    IF ~started THEN [state |-> StateNone, spawn |-> <<>>]
    ELSE [state |-> PendingSearch,
          spawn |-> <<Task("single", entity_id, <<>>, 0, direction, <<>>)>>]

\* EasyMotion::show_trie_from_query: started is whether search_window
\* returned a task; the task is spawned and the state waits for it.
show_trie_from_query(query, direction, entity_id, started) ==
    IF ~started THEN [state |-> StateNone, spawn |-> <<>>]
    ELSE [state |-> PendingSearch,
          spawn |-> <<Task("single", entity_id, <<>>, 0, direction, query)>>]

\* EasyMotion::show_trie_from_query_multipane: started holds the editors whose
\* search_multipane returned a task; the others are reset.  No task at all:
\* None.  Otherwise the cursor is looked up (panic when the active editor is
\* not visible) and the joined task is spawned.
show_trie_from_query_multipane(query, started, eds) ==
    LET all == editors_with_bounding_boxes(panes)
        weak_editors == SelectSeq(all, LAMBDA x : x.id \in started)
        reset == [e \in EditorIds |->
                     IF e \in active_editor_views(panes) \ started
                     THEN remove_keymap_context_layer(clear_highlights(eds[e]))
                     ELSE eds[e]]
    IN IF Len(weak_editors) = 0
       THEN [state |-> StateNone, editors |-> reset, spawn |-> <<>>, panic |-> FALSE]
       ELSE IF ~active_is_visible
       THEN [state |-> StateNone, editors |-> reset, spawn |-> <<>>, panic |-> TRUE]
       ELSE [state |-> PendingSearch, editors |-> reset, panic |-> FALSE,
             spawn |-> <<Task("multi", NoEditor, weak_editors, cursor_pixels,
                              "BiDirectional", query)>>]

\* EasyMotion::pattern_submit, the cross-view slot holding a state: the slot is
\* taken; only a Pattern state goes on to search.
pattern_submit_multipane ==
    /\ ~crashed
    /\ multipane_state # NoState
    /\ IF multipane_state.tag # "Pattern" \/ active_editor = NoEditor
       THEN /\ multipane_state' = NoState
            /\ ev' = [Ev("pattern_submit") EXCEPT !.mode = "multi"]
            /\ UNCHANGED <<keys, dimming, vim_keys, active_editor, editor_states, panes, editors,
                           focus, tasks, crashed, vim_states, vim_mode>>
       ELSE \E started \in SUBSET active_editor_views(panes) :
              LET r == show_trie_from_query_multipane(multipane_state.chars, started,
                                                      editors)
              IN /\ Len(tasks) + Len(r.spawn) <= MaxTasks
                 /\ editors' = r.editors
                 /\ crashed' = r.panic
                 /\ multipane_state' = IF r.panic THEN NoState ELSE r.state
                 /\ tasks' = tasks \o r.spawn
                 /\ ev' = [Ev("pattern_submit") EXCEPT !.mode = "multi"]
                 /\ UNCHANGED <<keys, dimming, vim_keys, active_editor, editor_states, panes, focus, vim_states, vim_mode>>

\* EasyMotion::pattern_submit, no cross-view state: the active editor's state
\* is taken; only a Pattern state goes on to search.
pattern_submit_single ==
    /\ ~crashed
    /\ multipane_state = NoState
    /\ active_editor # NoEditor
    /\ LET state == editor_states[active_editor]
       IN IF state.tag # "Pattern" \/ ~upgrade(editors[active_editor])
          THEN /\ editor_states' = [editor_states EXCEPT ![active_editor] = StateNone]
               /\ ev' = [Ev("pattern_submit") EXCEPT !.mode = "single",
                            !.editor = active_editor]
               /\ UNCHANGED <<keys, dimming, vim_keys, active_editor, multipane_state, panes,
                              editors, focus, tasks, crashed, vim_states, vim_mode>>
          ELSE \E started \in BOOLEAN :
                 LET r == show_trie_from_query(state.chars, state.direction,
                                               active_editor, started)
                 IN /\ Len(tasks) + Len(r.spawn) <= MaxTasks
                    /\ editor_states' = [editor_states EXCEPT ![active_editor] = r.state]
                    /\ tasks' = tasks \o r.spawn
                    /\ ev' = [Ev("pattern_submit") EXCEPT !.mode = "single",
                                 !.editor = active_editor]
                    /\ UNCHANGED <<keys, dimming, vim_keys, active_editor, multipane_state, panes,
                                   editors, focus, crashed, vim_states, vim_mode>>

\* EasyMotion::observe_keystrokes_impl_multipane: the key goes to the state
\* taken from the cross-view slot; the new state is put back into the slot.
observe_keystrokes_impl_multipane(key) ==
    /\ ~crashed
    /\ multipane_state # NoState
    /\ LET state == multipane_state
           base == [Ev("keystroke") EXCEPT !.mode = "multi", !.key = key]
       IN CASE state.tag = "None" ->
                 /\ multipane_state' = NoState
                 /\ ev' = base
                 /\ UNCHANGED <<keys, dimming, vim_keys, active_editor, editor_states, panes,
                                editors, focus, tasks, crashed, vim_states, vim_mode>>
            [] state.tag = "NCharInput" ->
                 LET res == n_char_record_str(state, key)
                 IN IF res.res = "Recording"
                    THEN /\ multipane_state' = res.state
                         /\ ev' = [base EXCEPT !.res = res.res]
                         /\ UNCHANGED <<keys, dimming, vim_keys, active_editor, editor_states, panes,
                                        editors, focus, tasks, crashed, vim_states, vim_mode>>
                    ELSE IF active_editor = NoEditor
                    THEN /\ multipane_state' = StateNone
                         /\ ev' = [base EXCEPT !.res = res.res]
                         /\ UNCHANGED <<keys, dimming, vim_keys, active_editor, editor_states, panes,
                                        editors, focus, tasks, crashed, vim_states, vim_mode>>
                    ELSE \E started \in SUBSET active_editor_views(panes) :
                           LET r == show_trie_from_query_multipane(res.query, started,
                                                                   editors)
                           IN /\ Len(tasks) + Len(r.spawn) <= MaxTasks
                              /\ editors' = r.editors
                              /\ crashed' = r.panic
                              /\ multipane_state' = IF r.panic THEN NoState ELSE r.state
                              /\ tasks' = tasks \o r.spawn
                              /\ ev' = [base EXCEPT !.res = res.res]
                              /\ UNCHANGED <<keys, dimming, vim_keys, active_editor, editor_states,
                                             panes, focus, vim_states, vim_mode>>
            [] state.tag = "Selection" ->
                 LET r == handle_trim_multipane(state, key, editors, panes, focus)
                 IN /\ multipane_state' = r.state
                    /\ editors' = r.editors
                    /\ focus' = r.focus
                    /\ ev' = [base EXCEPT !.res = r.res, !.typed = state.typed \o <<key>>]
                    /\ UNCHANGED <<keys, dimming, vim_keys, active_editor, editor_states, panes,
                                   tasks, crashed, vim_states, vim_mode>>
            [] state.tag = "Pattern" ->
                 /\ Len(state.chars) < MaxQuery
                 /\ multipane_state' = pattern_record_str(state, key)
                 /\ ev' = base
                 /\ UNCHANGED <<keys, dimming, vim_keys, active_editor, editor_states, panes,
                                editors, focus, tasks, crashed, vim_states, vim_mode>>
            [] OTHER ->
                 /\ multipane_state' = state
                 /\ ev' = base
                 /\ UNCHANGED <<keys, dimming, vim_keys, active_editor, editor_states, panes,
                                editors, focus, tasks, crashed, vim_states, vim_mode>>

\* EasyMotion::observe_keystrokes_impl: the key goes to the state taken from
\* the active editor; the new state is stored for that editor.  When the
\* active editor was released the state stays taken.
observe_keystrokes_impl(key) ==
    /\ ~crashed
    /\ active_editor # NoEditor
    /\ easy_motion_controlled(editor_states[active_editor])
    /\ LET state == editor_states[active_editor]
           base == [Ev("keystroke") EXCEPT !.mode = "single", !.key = key,
                       !.editor = active_editor]
       IN CASE ~upgrade(editors[active_editor]) ->
                 /\ editor_states' = [editor_states EXCEPT ![active_editor] = StateNone]
                 /\ ev' = base
                 /\ UNCHANGED <<keys, dimming, vim_keys, active_editor, multipane_state, panes,
                                editors, focus, tasks, crashed, vim_states, vim_mode>>
            [] upgrade(editors[active_editor]) /\ state.tag = "NCharInput" ->
                 LET res == n_char_record_str(state, key)
                 IN IF res.res = "Recording"
                    THEN /\ editor_states' = [editor_states EXCEPT ![active_editor] =
                                                  res.state]
                         /\ ev' = [base EXCEPT !.res = res.res]
                         /\ UNCHANGED <<keys, dimming, vim_keys, active_editor, multipane_state,
                                        panes, editors, focus, tasks, crashed, vim_states, vim_mode>>
                    ELSE \E started \in BOOLEAN :
                           LET r == show_trie_from_query(res.query, state.direction,
                                                         active_editor, started)
                           IN /\ Len(tasks) + Len(r.spawn) <= MaxTasks
                              /\ editor_states' = [editor_states EXCEPT ![active_editor] =
                                                       r.state]
                              /\ tasks' = tasks \o r.spawn
                              /\ ev' = [base EXCEPT !.res = res.res]
                              /\ UNCHANGED <<keys, dimming, vim_keys, active_editor, multipane_state,
                                             panes, editors, focus, crashed, vim_states, vim_mode>>
            [] upgrade(editors[active_editor]) /\ state.tag = "Selection" ->
                 LET r == handle_trim(state, key, editors[active_editor])
                 IN /\ editor_states' = [editor_states EXCEPT ![active_editor] = r.state]
                    /\ editors' = [editors EXCEPT ![active_editor] = r.ed]
                    /\ ev' = [base EXCEPT !.res = r.res, !.typed = state.typed \o <<key>>]
                    /\ UNCHANGED <<keys, dimming, vim_keys, active_editor, multipane_state, panes,
                                   focus, tasks, crashed, vim_states, vim_mode>>
            [] upgrade(editors[active_editor]) /\ state.tag = "Pattern" ->
                 /\ Len(state.chars) < MaxQuery
                 /\ editor_states' = [editor_states EXCEPT ![active_editor] =
                                          pattern_record_str(state, key)]
                 /\ ev' = base
                 /\ UNCHANGED <<keys, dimming, vim_keys, active_editor, multipane_state, panes,
                                editors, focus, tasks, crashed, vim_states, vim_mode>>
            [] OTHER ->
                 /\ ev' = base
                 /\ UNCHANGED <<keys, dimming, vim_keys, active_editor, editor_states,
                                multipane_state, panes, editors, focus, tasks, crashed, vim_states, vim_mode>>

\* A faulty observe_keystrokes: the key goes to the active editor's state
\* whatever the cross-view slot holds.
observe_keystrokes_unrouted(key) == observe_keystrokes_impl(key)

\* A faulty observe_keystrokes: a cross-view state that awaits its search is
\* taken from the slot and not stored again.
observe_keystrokes_take_pending(key) ==
    IF multipane_state # NoState /\ multipane_state.tag = "PendingSearch"
    THEN /\ ~crashed
         /\ multipane_state' = NoState
         /\ ev' = [Ev("keystroke") EXCEPT !.mode = "multi", !.key = key]
         /\ UNCHANGED <<keys, dimming, vim_keys, active_editor, editor_states, panes,
                        editors, focus, tasks, crashed, vim_states, vim_mode>>
    ELSE IF multipane_state # NoState
    THEN observe_keystrokes_impl_multipane(key)
    ELSE observe_keystrokes_impl(key)

\* EasyMotion::observe_keystrokes: a key with no action bound and no pending
\* keystrokes goes to the cross-view handler when the slot holds a state,
\* else to the active editor's.
observe_keystrokes(key) ==
    IF multipane_state # NoState
    THEN observe_keystrokes_impl_multipane(key)
    ELSE observe_keystrokes_impl(key)

\* EasyMotion::cancel: the cross-view state is cleared in place when the slot
\* holds one, else the active editor's state is reset; with several panes the
\* panes' active editors are torn down, else the active editor.
cancel ==
    LET multi == multipane_state # NoState
        editor == IF multi THEN NoEditor ELSE active_editor
        views == IF Len(panes) > 1 THEN active_editor_views(panes)
                 ELSE IF editor # NoEditor THEN {editor} ELSE {}
        scope == IF multi THEN multipane_state
                 ELSE IF active_editor # NoEditor THEN editor_states[active_editor]
                 ELSE StateNone
    IN /\ ~crashed
       /\ multipane_state' = IF multi THEN StateNone ELSE multipane_state
       /\ editor_states' = IF ~multi /\ active_editor # NoEditor
                           THEN [editor_states EXCEPT ![active_editor] = StateNone]
                           ELSE editor_states
       /\ editors' = [e \in EditorIds |->
                         IF e \in views THEN clear_all(editors[e]) ELSE editors[e]]
       /\ tasks' = IF scope.tag = "PendingSearch"
                   THEN MarkTasks(tasks, IF multi THEN "multi" ELSE "single",
                                  active_editor, "cancelled")
                   ELSE tasks
       /\ ev' = [Ev("cancel") EXCEPT !.mode = IF multi THEN "multi" ELSE "single",
                    !.editor = editor]
       /\ UNCHANGED <<keys, dimming, vim_keys, active_editor, panes, focus, crashed, vim_states, vim_mode>>

\* A faulty completion: the matches are labelled without looking whether the
\* task's editor still exists.
complete_single_no_upgrade(i, D) ==
    /\ ~crashed
    /\ i \in 1..Len(tasks)
    /\ tasks[i].kind = "single"
    /\ LET t == tasks[i]
       IN \E matches \in D :
             LET r == handle_new_matches(matches, t.direction, editors[t.editor],
                                         t.editor)
             IN /\ editors' = [editors EXCEPT ![t.editor] =
                                  set_keymap_context_layer(r.ed,
                                                           keymap_context_layer(r.state))]
                /\ editor_states' = [editor_states EXCEPT ![t.editor] = r.state]
                /\ ev' = [Ev("complete") EXCEPT !.mode = "single", !.editor = t.editor,
                             !.cancelled = t.cancelled, !.superseded = t.superseded,
                             !.matches = {[point |-> m, id |-> t.editor] : m \in matches}]
    /\ tasks' = RemoveAt(tasks, i)
    /\ UNCHANGED <<keys, dimming, vim_keys, active_editor, multipane_state, panes, focus, crashed,
                   vim_states, vim_mode>>

\* The task spawned by show_trie_from_query resolves: the matches are
\* labelled in the task's editor and the state is stored for it; nothing is
\* done when the editor was released.
complete_single(i, D) ==
    /\ ~crashed
    /\ i \in 1..Len(tasks)
    /\ tasks[i].kind = "single"
    /\ LET t == tasks[i]
       IN IF ~upgrade(editors[t.editor])
          THEN /\ ev' = [Ev("complete") EXCEPT !.mode = "single", !.editor = t.editor,
                            !.cancelled = t.cancelled, !.superseded = t.superseded]
               /\ UNCHANGED <<editors, editor_states>>
          ELSE \E matches \in D :
             LET r == handle_new_matches(matches, t.direction, editors[t.editor],
                                         t.editor)
             IN /\ editors' = [editors EXCEPT ![t.editor] =
                                  set_keymap_context_layer(r.ed,
                                                           keymap_context_layer(r.state))]
                /\ editor_states' = [editor_states EXCEPT ![t.editor] = r.state]
                /\ ev' = [Ev("complete") EXCEPT !.mode = "single", !.editor = t.editor,
                             !.cancelled = t.cancelled, !.superseded = t.superseded,
                             !.matches = {[point |-> m, id |-> t.editor] : m \in matches}]
    /\ tasks' = RemoveAt(tasks, i)
    /\ UNCHANGED <<keys, dimming, vim_keys, active_editor, multipane_state, panes, focus, crashed, vim_states, vim_mode>>

\* A faulty completion: the state it stores is overwritten by the PendingSearch
\* of the action that dispatched the search.
complete_multi_overwritten(i, D) ==
    /\ ~crashed
    /\ i \in 1..Len(tasks)
    /\ tasks[i].kind = "multi"
    /\ LET t == tasks[i]
       IN \E per_editor \in [1..Len(t.editors) -> D],
             order \in Permutations(1..Len(t.editors)) :
             LET r == process_match_tasks(t, per_editor, order, editors)
             IN /\ editors' = r.editors
                /\ multipane_state' = PendingSearch
                /\ ev' = [Ev("complete") EXCEPT !.mode = "multi",
                             !.cancelled = t.cancelled, !.superseded = t.superseded,
                             !.matches = UNION {{[point |-> m, id |-> t.editors[k].id] :
                                                    m \in per_editor[k]} :
                                                   k \in 1..Len(t.editors)}]
    /\ tasks' = RemoveAt(tasks, i)
    /\ UNCHANGED <<keys, dimming, vim_keys, active_editor, editor_states, panes, focus, crashed, vim_states, vim_mode>>

\* The tasks joined by process_match_tasks resolve.
complete_multi(i, D) ==
    /\ ~crashed
    /\ i \in 1..Len(tasks)
    /\ tasks[i].kind = "multi"
    /\ LET t == tasks[i]
       IN \E per_editor \in [1..Len(t.editors) -> D],
             order \in Permutations(1..Len(t.editors)) :
             LET r == process_match_tasks(t, per_editor, order, editors)
             IN /\ editors' = r.editors
                /\ multipane_state' = r.state
                /\ ev' = [Ev("complete") EXCEPT !.mode = "multi",
                             !.cancelled = t.cancelled, !.superseded = t.superseded,
                             !.matches = UNION {{[point |-> m, id |-> t.editors[k].id] :
                                                    m \in per_editor[k]} :
                                                   k \in 1..Len(t.editors)}]
    /\ tasks' = RemoveAt(tasks, i)
    /\ UNCHANGED <<keys, dimming, vim_keys, active_editor, editor_states, panes, focus, crashed, vim_states, vim_mode>>

\* editor_events: a visible editor is focused and becomes the active editor.
focus_editor(e) ==
    /\ ~crashed
    /\ e \in active_editor_views(panes)
    /\ active_editor # e \/ focus # e
    /\ active_editor' = e
    /\ focus' = e
    /\ ev' = Ev("focus")
    /\ UNCHANGED <<keys, dimming, vim_keys, editor_states, multipane_state, panes, editors, tasks,
                   crashed, vim_states, vim_mode>>

\* The user splits, closes or re-populates panes.
set_layout(l) ==
    /\ ~crashed
    /\ l # panes
    /\ \A e \in active_editor_views(l) : upgrade(editors[e])
    /\ panes' = l
    /\ ev' = Ev("layout")
    /\ UNCHANGED <<keys, dimming, vim_keys, active_editor, editor_states, multipane_state, editors,
                   focus, tasks, crashed, vim_states, vim_mode>>

\* The view of editor e is closed and released: its pane shows no editor and
\* its session state is destroyed.  vim's on_release handler removes the
\* editor's entry; for the workspace's easy motion the release is handled in
\* editor_events.rs and is modelled from spec.md section 3 (the Session State
\* is reset to Idle when the owning view is closed).  Weak handles to the
\* view remain.
release(e) ==
    /\ ~crashed
    /\ upgrade(editors[e])
    /\ panes' = [i \in 1..Len(panes) |-> IF panes[i] = e THEN NoEditor ELSE panes[i]]
    /\ editors' = [editors EXCEPT ![e] = Released]
    /\ editor_states' = [editor_states EXCEPT ![e] = StateNone]
    /\ vim_states' = [vim_states EXCEPT ![e] = NoState]
    /\ ev' = [Ev("release") EXCEPT !.editor = e]
    /\ UNCHANGED <<keys, dimming, vim_keys, active_editor, multipane_state, focus, tasks, crashed,
                   vim_mode>>

\* ------------------------------------------- crates/vim/src/easy_motion.rs
\* The vim crate's own easy motion: a state per editor (absent when idle),
\* kept in its own global, driven by actions registered on each editor.  Its
\* trie.rs and editor_state.rs are modelled like perm.rs and editor_state.rs
\* above; no text is folded.

\* DisplayPoint::to_offset and the way back (offset.to_point,
\* point_to_display_point): a position of the model is followed by one more
\* character.
to_offset(point) == 2 * point
offset_to_point(offset) == offset \div 2

\* vim's EasyMotion::add_overlays: the overlays of the leaves, at the display
\* points of their offsets, added to those the editor shows.
vim_add_overlays(ed, trie_iter) ==
    [ed EXCEPT !.overlays =
        @ \cup {[text |-> o.seq, point |-> offset_to_point(o.overlay.offset),
                 style |-> o.overlay.style] : o \in trie_iter}]

\* vim's EasyMotion::clear_editor
clear_editor(ed) == [clear_all(ed) EXCEPT !.blink = TRUE]

\* vim's EasyMotion::handle_new_matches: the cursor stops blinking; no state
\* for no matches; otherwise the matches are sorted from the cursor, labelled,
\* shown, the text is dimmed and the keymap context layer is set.
vim_handle_new_matches(matches, direction, ed) ==
    LET dark == [ed EXCEPT !.blink = FALSE]
    IN IF matches = {} THEN [state |-> NoState, ed |-> dark]
       ELSE LET sorted == sort_matches_display(matches, ed.cursor)
                trie == {[seq |-> l.seq,
                          overlay |-> [style |-> style_for(l.seq),
                                       offset |-> to_offset(l.item)]] :
                            l \in populate_with(vim_keys, sorted)}
                new_state == new_selection(trie)
            IN [state |-> new_state,
                ed |-> set_keymap_context_layer(
                           highlight_text(vim_add_overlays(dark, trie)),
                           keymap_context_layer(new_state))]

\* vim's EasyMotion::handle_trim: one key of an editor's selection.
vim_handle_trim(selection, key, ed) ==
    LET r == record_str(selection, key)
    IN CASE r.res = "Found" ->
              LET overlay == CHOOSE o \in r.found : TRUE
                  point == offset_to_point(overlay.overlay.offset)
              IN [res |-> r.res, state |-> NoState,
                  ed |-> clear_editor(change_selections(ed, point))]
         [] r.res = "Changed" ->
              [res |-> r.res, state |-> r.selection,
               ed |-> vim_add_overlays(clear_overlays(ed), remaining(r.selection))]
         [] r.res = "Err" ->
              [res |-> r.res, state |-> NoState, ed |-> clear_editor(ed)]
         [] OTHER ->
              [res |-> r.res, state |-> r.selection, ed |-> ed]

\* vim's EasyMotion::word_impl on editor e: Vim enters the EasyMotion mode and
\* the word starts are labelled; a state is stored only when there is one.
vim_word_impl(e, direction, D) ==
    /\ ~crashed
    /\ upgrade(editors[e])
    /\ \E matches \in D :
          LET r == vim_handle_new_matches(matches, direction, editors[e])
          IN /\ editors' = [editors EXCEPT ![e] = r.ed]
             /\ vim_states' = IF r.state = NoState THEN vim_states
                              ELSE [vim_states EXCEPT ![e] = r.state]
             /\ ev' = [Ev("vim_word") EXCEPT !.mode = "vim", !.editor = e,
                          !.matches = {[point |-> m, id |-> e] : m \in matches}]
    /\ vim_mode' = "EasyMotion"
    /\ UNCHANGED <<keys, dimming, vim_keys, active_editor, editor_states, multipane_state, panes,
                   focus, tasks, crashed>>

\* vim's EasyMotion::observe_keystrokes on editor e: the key goes to the state
\* removed for the editor; a state that remains is stored again, else Vim
\* returns to the Normal mode.
vim_observe_keystrokes(e, key) ==
    /\ ~crashed
    /\ upgrade(editors[e])
    /\ vim_states[e] # NoState
    /\ LET r == vim_handle_trim(vim_states[e], key, editors[e])
       IN /\ editors' = [editors EXCEPT ![e] = r.ed]
          /\ vim_states' = [vim_states EXCEPT ![e] = r.state]
          /\ vim_mode' = IF r.state = NoState THEN "Normal" ELSE vim_mode
          /\ ev' = [Ev("keystroke") EXCEPT !.mode = "vim", !.key = key, !.editor = e,
                       !.res = r.res, !.typed = vim_states[e].typed \o <<key>>]
    /\ UNCHANGED <<keys, dimming, vim_keys, active_editor, editor_states, multipane_state, panes,
                   focus, tasks, crashed>>

\* A faulty settings observer: the selections in progress are labelled again
\* with the new alphabet.
settings_changed_relabel(new_keys) ==
    /\ ~crashed
    /\ vim_keys' = new_keys
    /\ vim_states' =
          [e \in EditorIds |->
              IF vim_states[e].tag # "Selection" THEN vim_states[e]
              ELSE LET sorted == sort_matches_display(
                                     {offset_to_point(o.overlay.offset) :
                                         o \in vim_states[e].trie},
                                     editors[e].cursor)
                   IN [vim_states[e] EXCEPT !.trie =
                          {[seq |-> l.seq,
                            overlay |-> [style |-> style_for(l.seq),
                                         offset |-> to_offset(l.item)]] :
                              l \in populate_with(new_keys, sorted)}]]
    /\ ev' = [Ev("settings") EXCEPT !.mode = "vim"]
    /\ UNCHANGED <<keys, dimming, active_editor, editor_states, multipane_state, panes,
                   editors, focus, tasks, crashed, vim_mode>>

\* vim's observer of the SettingsStore (init): the alphabet of the settings
\* becomes EasyMotion.keys; no state of an editor is touched.
settings_changed(new_keys) ==
    /\ ~crashed
    /\ vim_keys' = new_keys
    /\ ev' = [Ev("settings") EXCEPT !.mode = "vim"]
    /\ UNCHANGED <<keys, dimming, active_editor, editor_states, multipane_state, panes,
                   editors, focus, tasks, crashed, vim_states, vim_mode>>

\* The keystroke events the host reports: the key, whether the key triggered
\* an action of the keymap, and whether the host then holds pending keystrokes
\* of a binding of several keys.  BoundKey is bound to an action (as escape is
\* to Cancel) and PrefixKey begins a binding of several keys.
BoundKey == "escape"
PrefixKey == "ctrl-k"
KeystrokeEvent(key) == [key |-> key, action |-> key = BoundKey, pending |-> key = PrefixKey]
KeystrokeEvents == {KeystrokeEvent(k) : k \in KeyInputs \cup {BoundKey, PrefixKey}}

\* The observer returns before it reads any state.
unobserved(keystroke_event) ==
    /\ ~crashed
    /\ ev' = [Ev("unobserved") EXCEPT !.key = keystroke_event.key]
    /\ UNCHANGED <<keys, dimming, vim_keys, active_editor, editor_states, multipane_state,
                   panes, editors, focus, tasks, crashed, vim_states, vim_mode>>

\* A faulty observer: every key is handed on.
observe_keystroke_event_unguarded(keystroke_event) ==
    observe_keystrokes(keystroke_event.key)

\* EasyMotion::observe_keystrokes from its entry: an event that triggered an
\* action, or that arrives while the host has pending keystrokes, is left
\* alone; any other key is handed on.
observe_keystroke_event(keystroke_event) ==
    IF keystroke_event.action THEN unobserved(keystroke_event)
    ELSE IF keystroke_event.pending THEN unobserved(keystroke_event)
    ELSE observe_keystrokes(keystroke_event.key)

\* vim's EasyMotion::observe_keystrokes from its entry, on editor e.
vim_observe_keystroke_event(e, keystroke_event) ==
    IF keystroke_event.action THEN unobserved(keystroke_event)
    ELSE IF keystroke_event.pending THEN unobserved(keystroke_event)
    ELSE vim_observe_keystrokes(e, keystroke_event.key)

\* The editor events vim's easy motion is subscribed to: Fold, UnFold and any
\* other event.
EditorEvents == {"Fold", "UnFold", "Edited"}

\* vim's EasyMotion::add_overlays with the display snapshot's folds: a leaf
\* whose point is folded gets no overlay.
vim_add_overlays_folded(ed, trie_iter, folded) ==
    vim_add_overlays(ed, {o \in trie_iter : offset_to_point(o.overlay.offset) \notin folded})

\* A faulty update_overlays: the state removed for the editor is not inserted
\* again.
update_overlays_drop_state(e, event, folded) ==
    /\ ~crashed
    /\ upgrade(editors[e])
    /\ IF event \notin {"Fold", "UnFold"} \/ vim_states[e] = NoState
       THEN UNCHANGED <<editors, vim_states>>
       ELSE /\ editors' = [editors EXCEPT ![e] =
                              vim_add_overlays_folded(clear_overlays(@),
                                                      remaining(vim_states[e]), folded)]
            /\ vim_states' = [vim_states EXCEPT ![e] = NoState]
    /\ ev' = [Ev("editor_event") EXCEPT !.mode = "vim", !.editor = e, !.res = event,
                 !.matches = {[point |-> p, id |-> e] : p \in folded}]
    /\ UNCHANGED <<keys, dimming, vim_keys, active_editor, editor_states, multipane_state,
                   panes, focus, tasks, crashed, vim_mode>>

\* vim's EasyMotion::update_overlays on editor e, the display snapshot having
\* the folded points: for Fold and UnFold the state is removed for the editor,
\* the editor's overlays are cleared and added again from the state's trie,
\* and the state is inserted again; nothing for any other event or without a
\* state.
update_overlays(e, event, folded) ==
    /\ ~crashed
    /\ upgrade(editors[e])
    /\ IF event \notin {"Fold", "UnFold"} \/ vim_states[e] = NoState
       THEN UNCHANGED editors
       ELSE editors' = [editors EXCEPT ![e] =
                           vim_add_overlays_folded(clear_overlays(@),
                                                   remaining(vim_states[e]), folded)]
    /\ ev' = [Ev("editor_event") EXCEPT !.mode = "vim", !.editor = e, !.res = event,
                 !.matches = {[point |-> p, id |-> e] : p \in folded}]
    /\ UNCHANGED <<keys, dimming, vim_keys, active_editor, editor_states, multipane_state,
                   panes, focus, tasks, crashed, vim_states, vim_mode>>

\* --------------------------------------------------------- specifications
Points == 1..MaxPoint
TriePoints == 1..TrieMaxPoint

\* What a discovery (search::word_starts, search_window, search_multipane)
\* may find in a view: nothing, or every position of the searched range.
Discoveries == {{}, Points}

\* init(): no active editor, no state, in a workspace of any layout.  The
\* alphabet is short so that labels of several keys occur with the few
\* candidates of the model.
Init ==
    /\ keys = SubSeq(Alphabet, 1, 2)
    /\ vim_keys = keys
    /\ dimming = TRUE
    /\ active_editor = NoEditor
    /\ editor_states = [e \in EditorIds |-> StateNone]
    /\ multipane_state = NoState
    /\ panes \in Layouts
    /\ editors = [e \in EditorIds |-> NewEditor(1)]
    /\ focus = NoEditor
    /\ tasks = <<>>
    /\ crashed = FALSE
    /\ steps = 0
    /\ vim_states = [e \in EditorIds |-> NoState]
    /\ vim_mode = "Normal"
    /\ ev = Ev("init")

Word == steps < MaxSteps /\ steps' = steps + 1 /\ (\E d \in Directions : word(d, Discoveries))
NChar == steps < MaxSteps /\ steps' = steps + 1 /\ (\E n \in 1..MaxNChar, d \in Directions : n_char(n, d))
Pattern == steps < MaxSteps /\ steps' = steps + 1 /\ (\E d \in Directions : pattern(d))
PatternSubmit == steps < MaxSteps /\ steps' = steps + 1 /\ (pattern_submit_multipane \/ pattern_submit_single)
Cancel == steps < MaxSteps /\ steps' = steps + 1 /\ (cancel)
Keystroke == steps < MaxSteps /\ steps' = steps + 1 /\ (\E key \in KeyInputs : observe_keystrokes(key))
CompleteSingle == steps < MaxSteps /\ steps' = steps + 1 /\ (\E i \in 1..Len(tasks) : complete_single(i, Discoveries))
CompleteMulti == steps < MaxSteps /\ steps' = steps + 1 /\ (\E i \in 1..Len(tasks) : complete_multi(i, Discoveries))
FocusEditor == steps < MaxSteps /\ steps' = steps + 1 /\ (\E e \in EditorIds : focus_editor(e))
SetLayout == steps < MaxSteps /\ steps' = steps + 1 /\ (\E l \in Layouts : set_layout(l))

Next ==
    \/ Word
    \/ NChar
    \/ Pattern
    \/ PatternSubmit
    \/ Cancel
    \/ Keystroke
    \/ CompleteSingle
    \/ CompleteMulti
    \/ FocusEditor
    \/ SetLayout

Spec == Init /\ [][Next]_vars

\* The label engine alone, in both crates: every alphabet of one to four
\* keys, every cursor; one word action over any set of candidates, of the
\* workspace's easy motion in editor 1 or of vim's in editor 2, then
\* keystrokes.
TrieInit ==
    /\ keys \in Alphabets
    /\ vim_keys = keys
    /\ dimming \in BOOLEAN
    /\ active_editor = 1
    /\ editor_states = [e \in EditorIds |-> StateNone]
    /\ multipane_state = NoState
    /\ panes = <<1>>
    /\ editors \in {[e \in EditorIds |-> NewEditor(c)] : c \in TriePoints}
    /\ focus = 1
    /\ tasks = <<>>
    /\ crashed = FALSE
    /\ steps = 0
    /\ vim_states = [e \in EditorIds |-> NoState]
    /\ vim_mode = "Normal"
    /\ ev = Ev("init")

TrieWord ==
    /\ steps < MaxSteps /\ steps' = steps + 1
    /\ ev.op = "init"
    /\ \E d \in Directions : word_single_pane(d, SUBSET TriePoints)

TrieKeystroke ==
    /\ steps < MaxSteps /\ steps' = steps + 1
    /\ \E key \in KeyInputs : observe_keystrokes_impl(key)

VimWord ==
    /\ steps < MaxSteps /\ steps' = steps + 1
    /\ ev.op = "init"
    /\ \E d \in Directions : vim_word_impl(2, d, SUBSET TriePoints)

VimKeystroke ==
    /\ steps < MaxSteps /\ steps' = steps + 1
    /\ \E key \in KeyInputs : vim_observe_keystrokes(2, key)

TrieNext == TrieWord \/ TrieKeystroke \/ VimWord \/ VimKeystroke

SpecTrie == TrieInit /\ [][TrieNext]_vars

\* The sessions of a split workspace alone: two panes with an editor each,
\* one of them focused; word actions (cross-view when bidirectional, else in
\* the active editor), their searches completing, keystrokes, Cancel and
\* changes of the panes.
PanesInit ==
    /\ keys = SubSeq(Alphabet, 1, 2)
    /\ vim_keys = keys
    /\ dimming = TRUE
    /\ active_editor \in EditorIds
    /\ editor_states = [e \in EditorIds |-> StateNone]
    /\ multipane_state = NoState
    /\ panes = <<1, 2>>
    /\ editors = [e \in EditorIds |-> NewEditor(1)]
    /\ focus = active_editor
    /\ tasks = <<>>
    /\ crashed = FALSE
    /\ steps = 0
    /\ vim_states = [e \in EditorIds |-> NoState]
    /\ vim_mode = "Normal"
    /\ ev = Ev("init")

PanesNext == Word \/ CompleteMulti \/ Keystroke \/ Cancel \/ SetLayout

SpecPanes == PanesInit /\ [][PanesNext]_vars

\* The actions that start at once, from any layout with a visible editor
\* focused: the word, sub-word, full-word and row actions, then the cross-view
\* search completing, keystrokes and Cancel.
OpsInit ==
    /\ keys = SubSeq(Alphabet, 1, 2)
    /\ vim_keys = keys
    /\ dimming = TRUE
    /\ panes \in Layouts
    /\ active_editor \in active_editor_views(panes)
    /\ editor_states = [e \in EditorIds |-> StateNone]
    /\ multipane_state = NoState
    /\ editors = [e \in EditorIds |-> NewEditor(1)]
    /\ focus = active_editor
    /\ tasks = <<>>
    /\ crashed = FALSE
    /\ steps = 0
    /\ vim_states = [e \in EditorIds |-> NoState]
    /\ vim_mode = "Normal"
    /\ ev = Ev("init")

SubWord == steps < MaxSteps /\ steps' = steps + 1 /\ (\E d \in Directions : sub_word(d, Discoveries))
FullWord == steps < MaxSteps /\ steps' = steps + 1 /\ (\E d \in Directions : full_word(d, Discoveries))
Row == steps < MaxSteps /\ steps' = steps + 1 /\ (\E d \in Directions : row(d, Discoveries))

OpsNext ==
    \/ Word
    \/ SubWord
    \/ FullWord
    \/ Row
    \/ CompleteMulti
    \/ Keystroke
    \/ Cancel

SpecOps == OpsInit /\ [][OpsNext]_vars

\* The pattern action alone, from any layout with a visible editor focused:
\* the action, keystrokes, PatternSubmit and the searches completing.
QueryNext ==
    \/ Pattern
    \/ Keystroke
    \/ PatternSubmit
    \/ CompleteSingle
    \/ CompleteMulti

SpecQuery == OpsInit /\ [][QueryNext]_vars

\* The ordering and labelling of one word action: every alphabet of one to
\* four keys, one pane or two, every cursor of the focused editor 1; a word
\* action over any candidates (cross-view when bidirectional in two panes)
\* and its search completing.
OrderInit ==
    /\ keys \in Alphabets
    /\ vim_keys = keys
    /\ dimming = FALSE
    /\ active_editor = 1
    /\ editor_states = [e \in EditorIds |-> StateNone]
    /\ multipane_state = NoState
    /\ panes \in {<<1>>, <<1, 2>>}
    /\ editors \in {[e \in EditorIds |-> NewEditor(c)] : c \in Points}
    /\ focus = 1
    /\ tasks = <<>>
    /\ crashed = FALSE
    /\ steps = 0
    /\ vim_states = [e \in EditorIds |-> NoState]
    /\ vim_mode = "Normal"
    /\ ev = Ev("init")

OrderWord ==
    /\ steps < MaxSteps /\ steps' = steps + 1
    /\ ev.op = "init"
    /\ \E d \in Directions : word(d, SUBSET Points)

OrderComplete ==
    /\ steps < MaxSteps /\ steps' = steps + 1
    /\ \E i \in 1..Len(tasks) : complete_multi(i, SUBSET Points)

OrderNext == OrderWord \/ OrderComplete

SpecOrder == OrderInit /\ [][OrderNext]_vars

\* Closing views: one pane showing the focused editor 1, with vim's easy
\* motion in editor 2; the n-char action and vim's word action, keystrokes,
\* the searches completing, and either editor being closed and released.
ReleaseInit ==
    /\ keys = SubSeq(Alphabet, 1, 2)
    /\ vim_keys = keys
    /\ dimming = TRUE
    /\ active_editor = 1
    /\ editor_states = [e \in EditorIds |-> StateNone]
    /\ multipane_state = NoState
    /\ panes = <<1>>
    /\ editors = [e \in EditorIds |-> NewEditor(1)]
    /\ focus = 1
    /\ tasks = <<>>
    /\ crashed = FALSE
    /\ steps = 0
    /\ vim_states = [e \in EditorIds |-> NoState]
    /\ vim_mode = "Normal"
    /\ ev = Ev("init")

Release == steps < MaxSteps /\ steps' = steps + 1 /\ (\E e \in EditorIds : release(e))

ReleaseVimWord ==
    /\ steps < MaxSteps /\ steps' = steps + 1
    /\ \E d \in Directions : vim_word_impl(2, d, Discoveries)

ReleaseNext ==
    \/ NChar
    \/ Keystroke
    \/ CompleteSingle
    \/ ReleaseVimWord
    \/ VimKeystroke
    \/ Release

SpecRelease == ReleaseInit /\ [][ReleaseNext]_vars

\* The configuration against the operations: the workspace's easy motion in
\* editor 1 (n-character searches, which complete later, and keystrokes), vim's
\* in editor 2, whose alphabet is that of the settings, and the settings
\* changing at any time.
ConfigInit ==
    /\ keys = SubSeq(Alphabet, 1, 2)
    /\ vim_keys = Alphabet
    /\ dimming = TRUE
    /\ active_editor = 1
    /\ editor_states = [e \in EditorIds |-> StateNone]
    /\ multipane_state = NoState
    /\ panes = <<1>>
    /\ editors = [e \in EditorIds |-> NewEditor(1)]
    /\ focus = 1
    /\ tasks = <<>>
    /\ crashed = FALSE
    /\ steps = 0
    /\ vim_states = [e \in EditorIds |-> NoState]
    /\ vim_mode = "Normal"
    /\ ev = Ev("init")

SettingsChanged ==
    /\ steps < MaxSteps /\ steps' = steps + 1
    /\ \E new_keys \in Alphabets : settings_changed(new_keys)

ConfigVimKeystroke ==
    /\ steps < MaxSteps /\ steps' = steps + 1
    /\ \E key \in SeqToSet(Alphabet) \cup {OtherKey, NoKey} : vim_observe_keystrokes(2, key)

ConfigNext ==
    \/ NChar
    \/ Keystroke
    \/ CompleteSingle
    \/ ReleaseVimWord
    \/ ConfigVimKeystroke
    \/ SettingsChanged

SpecConfig == ConfigInit /\ [][ConfigNext]_vars

\* The keystroke events against the sessions: the workspace's easy motion in
\* one pane or two (word actions, cross-view when bidirectional in two panes,
\* and their searches completing), vim's in editor 2 while the workspace shows
\* editor 1 alone, and keystroke events of every kind.
KeysInit ==
    /\ keys = SubSeq(Alphabet, 1, 2)
    /\ vim_keys = keys
    /\ dimming = TRUE
    /\ active_editor = 1
    /\ editor_states = [e \in EditorIds |-> StateNone]
    /\ multipane_state = NoState
    /\ panes \in {<<1>>, <<1, 2>>}
    /\ editors = [e \in EditorIds |-> NewEditor(1)]
    /\ focus = 1
    /\ tasks = <<>>
    /\ crashed = FALSE
    /\ steps = 0
    /\ vim_states = [e \in EditorIds |-> NoState]
    /\ vim_mode = "Normal"
    /\ ev = Ev("init")

KeysVimWord ==
    /\ steps < MaxSteps /\ steps' = steps + 1
    /\ panes = <<1>>
    /\ \E d \in Directions : vim_word_impl(2, d, Discoveries)

KeystrokeEventObserved ==
    /\ steps < MaxSteps /\ steps' = steps + 1
    /\ \E keystroke_event \in KeystrokeEvents : observe_keystroke_event(keystroke_event)

VimKeystrokeEventObserved ==
    /\ steps < MaxSteps /\ steps' = steps + 1
    /\ \E keystroke_event \in KeystrokeEvents :
          vim_observe_keystroke_event(2, keystroke_event)

KeysNext ==
    \/ Word
    \/ CompleteMulti
    \/ KeystrokeEventObserved
    \/ KeysVimWord
    \/ VimKeystrokeEventObserved

SpecKeys == KeysInit /\ [][KeysNext]_vars

\* vim's easy motion alone, in editor 2: one word action over any candidates,
\* then keystrokes, and editor events with any points of the display folded.
FoldInit ==
    /\ keys = SubSeq(Alphabet, 1, 2)
    /\ vim_keys = keys
    /\ dimming = TRUE
    /\ active_editor = 1
    /\ editor_states = [e \in EditorIds |-> StateNone]
    /\ multipane_state = NoState
    /\ panes = <<1>>
    /\ editors = [e \in EditorIds |-> NewEditor(1)]
    /\ focus = 1
    /\ tasks = <<>>
    /\ crashed = FALSE
    /\ steps = 0
    /\ vim_states = [e \in EditorIds |-> NoState]
    /\ vim_mode = "Normal"
    /\ ev = Ev("init")

FoldVimWord ==
    /\ steps < MaxSteps /\ steps' = steps + 1
    /\ ev.op = "init"
    /\ \E d \in Directions : vim_word_impl(2, d, SUBSET Points)

EditorEventObserved ==
    /\ steps < MaxSteps /\ steps' = steps + 1
    /\ \E event \in EditorEvents, folded \in SUBSET Points : update_overlays(2, event, folded)

FoldNext == FoldVimWord \/ VimKeystroke \/ EditorEventObserved

SpecFold == FoldInit /\ [][FoldNext]_vars

\* ------------------------------------------------------------- properties
Labels(trie) == {o.seq : o \in trie}
prefix_free(L) == \A a, b \in L : a # b => ~IsPrefix(a, b)
\* The views that own a candidate of the trie.
Involved(trie) == {o.overlay.editor_id : o \in trie}
\* The overlays that show the given leaves.
Shown(leaves) ==
    {[text |-> o.seq, point |-> o.overlay.point, style |-> o.overlay.style] :
         o \in leaves}
Idle(state) == state.tag \in {"None", "absent"}
torn_down(ed) == ed.overlays = {} /\ ~ed.highlights /\ ed.keymap = "none"
nothing_added(before, after) ==
    /\ after.overlays \subseteq before.overlays
    /\ after.highlights => before.highlights
    /\ after.keymap # "none" => after.keymap = before.keymap
\* The position of a leaf's candidate: held as a display point by the
\* workspace's easy motion, as an offset by vim's.
candidate(o) ==
    IF "offset" \in DOMAIN o.overlay THEN offset_to_point(o.overlay.offset)
    ELSE o.overlay.point
point_of(trie, seq) == candidate(CHOOSE o \in trie : o.seq = seq)
\* The session of editor e: the workspace's easy motion's, or vim's.
session(es, vs, mode, e) == IF mode = "vim" THEN vs[e] ELSE es[e]

\* One label per candidate, each a non-empty sequence of the alphabet's keys,
\* no label a prefix of another.
built_ok(trie, matches) ==
    /\ Cardinality(trie) = Cardinality(matches)
    /\ Cardinality(Labels(trie)) = Cardinality(trie)
    /\ {candidate(o) : o \in trie} = {m.point : m \in matches}
    /\ \A o \in trie : Len(o.seq) >= 1 /\ SeqToSet(o.seq) \subseteq SeqToSet(keys)
    /\ prefix_free(Labels(trie))

\* C1, as the spec states it: for every alphabet of K >= 1 keys and every list
\* of N >= 0 candidates, the builder returns exactly N labels, one per
\* candidate, each non-empty and over the alphabet, none a prefix of another.
\* (One key spells one prefix-free label only: K = 1 with N >= 2 fails.)
C1_EveryAlphabet ==
    ev.op \in {"word", "vim_word"}
        => built_ok(session(editor_states, vim_states, ev.mode, ev.editor).trie,
                    ev.matches)

\* C1, amended: the same for every alphabet of K >= 2 keys, and for K = 1
\* with at most one candidate.
C1_PrefixFreeBijection ==
    ev.op \in {"word", "vim_word"}
    /\ (Len(keys) >= 2 \/ Cardinality(ev.matches) <= Len(keys))
        => built_ok(session(editor_states, vim_states, ev.mode, ev.editor).trie,
                    ev.matches)

\* Two keys label five candidates, some with three keys.
C1_Witness ==
    /\ ev.op = "word"
    /\ Len(keys) = 2
    /\ Cardinality(ev.matches) = 5
    /\ \E o \in editor_states[1].trie : Len(o.seq) = 3

AsdfLabels == << <<"a">>, <<"s">>, <<"d">>, <<"f", "a">>, <<"f", "s">> >>

\* The five candidates carry a, s, d, fa, fs in priority order.
asdf_built(trie, cursor) ==
    /\ Cardinality(trie) = 5
    /\ Labels(trie) = SeqToSet(AsdfLabels)
    /\ \A i, j \in 1..5 :
          i < j => display_before(point_of(trie, AsdfLabels[i]),
                                  point_of(trie, AsdfLabels[j]), cursor)

\* From the fresh state "f" leaves exactly c3 and c4, shown; then "a" finds c3.
asdf_step ==
    LET pre == editor_states[1]
        rest == {o \in pre.trie : o.seq \in {<<"f", "a">>, <<"f", "s">>}}
    IN keys = Alphabet /\ pre.tag = "Selection" /\ Cardinality(pre.trie) = 5
       /\ ev'.op = "keystroke"
       => /\ pre.typed = <<>> /\ ev'.key = "f"
               => /\ ev'.res = "Changed"
                  /\ remaining(editor_states'[1]) = rest
                  /\ editors'[1].overlays = Shown(rest)
          /\ pre.typed = <<"f">> /\ ev'.key = "a"
               => /\ ev'.res = "Found"
                  /\ editors'[1].cursor = point_of(pre.trie, <<"f", "a">>)

\* C2: with the alphabet "asdf" and five candidates c0..c4 in priority order
\* the labels are a, s, d, fa, fs; from the fresh state the key "f" yields
\* Changed with exactly c3 and c4 remaining, and then "a" yields Found(c3).
C2_Asdf ==
    /\ [](ev.op = "word" /\ keys = Alphabet /\ Cardinality(ev.matches) = 5
             => asdf_built(editor_states[1].trie, editors[1].cursor))
    /\ [][asdf_step]_vars

\* "f" then "a" was typed over the alphabet "asdf" and found a candidate.
C2_Witness ==
    /\ keys = Alphabet
    /\ ev.op = "keystroke"
    /\ ev.res = "Found"
    /\ ev.typed = <<"f", "a">>

\* A key that continues a label: Changed while the label has more keys (the
\* prefix is accumulated over the same trie), Found of that candidate on its
\* last key.
round_trip_step ==
    LET e == ev'.editor
        pre == session(editor_states, vim_states, ev'.mode, e)
        post == session(editor_states', vim_states', ev'.mode, e)
        new == pre.typed \o <<ev'.key>>
    IN pre.tag = "Selection" /\ ev'.op = "keystroke"
       => \A o \in pre.trie :
             IsPrefix(new, o.seq)
                => IF o.seq = new
                   THEN /\ ev'.res = "Found"
                        /\ editors'[e].cursor = candidate(o)
                        /\ Idle(post)
                   ELSE /\ ev'.res = "Changed"
                        /\ post.tag = "Selection"
                        /\ post.typed = new
                        /\ post.trie = pre.trie

\* C3: feeding the keys of a candidate's label one at a time from the fresh
\* state yields Changed for every proper prefix and Found of that candidate
\* on the last key, never Err and never another candidate.  (A session starts
\* with the empty prefix and what is typed stays the prefix of a label.)
C3_RoundTrip ==
    /\ [](ev.op \in {"word", "vim_word"}
             => session(editor_states, vim_states, ev.mode, ev.editor).typed = <<>>)
    /\ [](\A state \in {editor_states[1], vim_states[2]} :
             state.tag = "Selection"
                => \E o \in state.trie :
                       IsPrefix(state.typed, o.seq) /\ state.typed # o.seq)
    /\ [][round_trip_step]_vars

\* A label of three keys was typed to its end.
C3_Witness ==
    /\ ev.op = "keystroke"
    /\ ev.res = "Found"
    /\ Len(ev.typed) = 3

\* C4, as the spec states it: in an Active state every input that is not the
\* next key of a remaining label yields Err.  (The empty keystroke is none,
\* and yields NoChange.)
C4_EveryInput ==
    [][LET pre == editor_states[1]
       IN pre.tag = "Selection" /\ ev'.op = "keystroke"
          /\ (\A o \in pre.trie : ~IsPrefix(pre.typed \o <<ev'.key>>, o.seq))
          => ev'.res = "Err"]_vars

\* C4, amended: in an Active state every non-empty key that is not the next
\* key of a remaining label yields Err, and the session ends.
C4_InvalidKeyErr ==
    [][LET pre == editor_states[1]
       IN pre.tag = "Selection" /\ ev'.op = "keystroke" /\ ev'.key # NoKey
          /\ (\A o \in pre.trie : ~IsPrefix(pre.typed \o <<ev'.key>>, o.seq))
          => ev'.res = "Err" /\ editor_states'[1] = StateNone]_vars

\* A key was rejected after another was accepted.
C4_Witness ==
    /\ ev.op = "keystroke"
    /\ ev.res = "Err"
    /\ Len(ev.typed) = 2

\* C5: a Cancel processed while the search of a query (a pattern's or an
\* n-char's) is outstanding makes the search's result be dropped when it
\* completes: no session state changes and no overlay, dimming highlight or
\* keymap context layer is added to any view.
C5_CancelledResultDropped ==
    [][(ev'.op = "complete"
        /\ \E i \in 1..Len(tasks) :
              tasks[i].cancelled /\ tasks[i].query # <<>> /\ tasks' = RemoveAt(tasks, i))
          => /\ editor_states' = editor_states
             /\ multipane_state' = multipane_state
             /\ \A e \in EditorIds : nothing_added(editors[e], editors'[e])]_vars

\* C6: the result of a search is never applied once a new operation was
\* started for its scope: the session state and the overlays shown stay those
\* of the operation started last.
C6_SupersededResultDropped ==
    [][ev'.op = "complete" /\ ev'.superseded
          => /\ editor_states' = editor_states
             /\ multipane_state' = multipane_state
             /\ editors' = editors]_vars

\* C7: a single-view keystroke (of the workspace's easy motion or of vim's)
\* that yields Found moves the view's cursor to the found candidate's
\* position, removes the view's overlays, dimming highlight and keymap context
\* layer, and makes the view's session Idle, all in the keystroke's turn.
C7_SingleViewFound ==
    [][ev'.op = "keystroke" /\ ev'.mode \in {"single", "vim"} /\ ev'.res = "Found"
          => \E o \in session(editor_states, vim_states, ev'.mode, ev'.editor).trie :
                /\ o.seq = ev'.typed
                /\ editors'[ev'.editor].cursor = candidate(o)
                /\ torn_down(editors'[ev'.editor])
                /\ Idle(session(editor_states', vim_states', ev'.mode, ev'.editor))]_vars

\* A label of two keys was resolved in a single view, away from the cursor.
C7_Witness ==
    /\ ev.op = "keystroke"
    /\ ev.mode = "single"
    /\ ev.res = "Found"
    /\ Len(ev.typed) = 2
    /\ editors[ev.editor].cursor # 1

\* C8: a cross-view keystroke that yields Found switches focus to the view
\* owning the candidate, moves only that view's cursor (to the candidate's
\* position), removes overlays, dimming and keymap context layer from every
\* view of the operation and makes the cross-view session Idle, whatever
\* views are visible by then.
C8_CrossViewFound ==
    [][ev'.op = "keystroke" /\ ev'.mode = "multi" /\ ev'.res = "Found"
          => \E o \in multipane_state.trie :
                /\ o.seq = ev'.typed
                /\ focus' = o.overlay.editor_id
                /\ editors'[o.overlay.editor_id].cursor = o.overlay.point
                /\ \A e \in EditorIds \ {o.overlay.editor_id} :
                      editors'[e].cursor = editors[e].cursor
                /\ \A e \in Involved(multipane_state.trie) : torn_down(editors'[e])
                /\ Idle(multipane_state')]_vars

\* C9: a keystroke that yields Err, single-view or cross-view, makes the
\* session Idle, removes overlays, dimming highlight and keymap context layer
\* from every involved view and changes no cursor and no focus.
C9_ErrTearsDown ==
    [][ev'.op = "keystroke" /\ ev'.res = "Err"
          => LET multi == ev'.mode = "multi"
                 pre == IF multi THEN multipane_state ELSE editor_states[ev'.editor]
                 post == IF multi THEN multipane_state'
                         ELSE editor_states'[ev'.editor]
             IN /\ Idle(post)
                /\ \A e \in Involved(pre.trie) : torn_down(editors'[e])
                /\ \A e \in EditorIds : editors'[e].cursor = editors[e].cursor
                /\ focus' = focus]_vars

\* The overlays of the leaves that view e owns under the typed prefix.
filtered(state, e) ==
    Shown({o \in state.trie : o.overlay.editor_id = e /\ IsPrefix(state.typed, o.seq)})

\* What the visible views display is the full overlay set filtered by the
\* typed prefix.
displays_filtered(ps, eds, state) ==
    \A e \in active_editor_views(ps) : eds[e].overlays = filtered(state, e)

\* C10: after every Changed result the overlays displayed are those of the
\* full overlay set whose label starts with the typed prefix, no more and no
\* fewer: in the view of a single-view session and in the visible views of a
\* cross-view session at the keystroke, and in the views visible after the
\* panes change next.
C10_ChangedFilters ==
    [][/\ ev'.op = "keystroke" /\ ev'.res = "Changed"
          => IF ev'.mode = "single"
             THEN editors'[ev'.editor].overlays =
                      filtered(editor_states'[ev'.editor], ev'.editor)
             ELSE displays_filtered(panes', editors', multipane_state')
       /\ ev.op = "keystroke" /\ ev.res = "Changed" /\ ev.mode = "multi"
          /\ ev'.op = "layout"
          => displays_filtered(panes', editors', multipane_state')]_vars

\* Every view displays exactly the leaves it owns under the typed prefix of
\* the cross-view session: none of another view's, and together all of them.
partitioned(eds, state) ==
    /\ \A e \in EditorIds : eds[e].overlays = filtered(state, e)
    /\ UNION {eds[e].overlays : e \in EditorIds} = Shown(remaining(state))

\* C11: in a cross-view session, when the shared trie is first displayed and
\* after every Changed, each view displays exactly the overlays of the
\* remaining labels whose candidate it owns (no view holding a session of its
\* own, the trie being that of the operation started last).
C11_CrossViewPartition ==
    [][(/\ \A e \in EditorIds : Idle(editor_states[e])
        /\ \/ /\ ev'.op = "complete" /\ ev'.mode = "multi" /\ ev'.matches # {}
              /\ ~ev'.cancelled /\ ~ev'.superseded
           \/ ev'.op = "keystroke" /\ ev'.mode = "multi" /\ ev'.res = "Changed")
          => partitioned(editors', multipane_state')]_vars

\* C12: a keystroke that yields NoChange leaves the session state (trie and
\* typed prefix), the overlays displayed, the dimming highlight, the keymap
\* context layer and every cursor exactly as they were, and the focus too.
C12_NoChangeFrame ==
    [][ev'.op = "keystroke" /\ ev'.res = "NoChange"
          => /\ editor_states' = editor_states
             /\ multipane_state' = multipane_state
             /\ editors' = editors
             /\ focus' = focus /\ active_editor' = active_editor]_vars

\* The empty keystroke arrived in a cross-view session narrowed by one key.
C12_Witness ==
    /\ ev.op = "keystroke"
    /\ ev.mode = "multi"
    /\ ev.res = "NoChange"
    /\ Len(ev.typed) = 2
    /\ multipane_state.typed = <<ev.typed[1]>>
    /\ \E e \in EditorIds : editors[e].overlays # {}

\* C13: Cancel leaves the session of its scope Idle and every view the
\* operation touched without overlays, dimming highlight and keymap context
\* layer: the views owning a candidate of the cross-view session when the
\* slot holds one, else every view that owns a single-view session, the
\* active view or not.
C13_CancelTearsDown ==
    [][ev'.op = "cancel"
          => IF multipane_state # NoState
             THEN /\ Idle(multipane_state')
                  /\ \A e \in Involved(multipane_state.trie) : torn_down(editors'[e])
             ELSE \A e \in EditorIds :
                     ~Idle(editor_states[e])
                        => Idle(editor_states'[e]) /\ torn_down(editors'[e])]_vars

\* C14: a single-view operation (a word action, or the completed search of
\* an n-char or a pattern) that discovers no candidate leaves the view's
\* session Idle, emits no overlay and no dimming highlight for it and installs
\* no keymap context layer.
C14_NoCandidates ==
    [][ev'.op \in {"word", "complete"} /\ ev'.mode = "single" /\ ev'.matches = {}
          => /\ Idle(editor_states'[ev'.editor])
             /\ nothing_added(editors[ev'.editor], editors'[ev'.editor])]_vars

\* C15: when the searches of a multi-view operation have all completed and
\* the merged candidate list is empty, the operation is discarded: the
\* cross-view slot leaves the pending search and is Idle, and the next
\* keystroke is not captured by the cross-view session.
C15_EmptyMergeDiscards ==
    [][/\ ev'.op = "complete" /\ ev'.mode = "multi" /\ ev'.matches = {}
          /\ ~ev'.cancelled /\ ~ev'.superseded
          => Idle(multipane_state')
       /\ ev.op = "complete" /\ ev.mode = "multi" /\ ev.matches = {}
          /\ ~ev.cancelled /\ ~ev.superseded /\ ev'.op = "keystroke"
          => ev'.mode # "multi"]_vars

\* C16: every keystroke is interpreted by one session.  When the cross-view
\* slot holds a state the cross-view handler takes the key and every per-view
\* session state is left as it was; otherwise the active view's handler takes
\* it, and the slot and the other views' states are left as they were.
C16_OneSessionPerKey ==
    [][ev'.op = "keystroke"
          => IF multipane_state # NoState
             THEN ev'.mode = "multi" /\ editor_states' = editor_states
             ELSE /\ ev'.mode = "single" /\ ev'.editor = active_editor
                  /\ multipane_state' = multipane_state
                  /\ \A e \in EditorIds \ {active_editor} :
                        editor_states'[e] = editor_states[e]]_vars

\* The cross-view session took a key that is also the first key of a label of
\* the active view's own session.
C16_Witness ==
    /\ ev.op = "keystroke"
    /\ ev.mode = "multi"
    /\ ev.res \in {"Changed", "Found"}
    /\ active_editor # NoEditor
    /\ editor_states[active_editor].tag = "Selection"
    /\ editor_states[active_editor].typed = <<>>
    /\ \E o \in editor_states[active_editor].trie : o.seq[1] = ev.key

\* C17: a word action started in a view whose session is Active discards
\* that session: afterwards the view's overlays are exactly those of the new
\* trie, none of the prior one, and when the new operation finds no candidate
\* the view shows no overlay and its session is Idle.
C17_NewOperationDiscards ==
    [][ev'.op = "word" /\ ev'.mode = "single"
       /\ editor_states[ev'.editor].tag = "Selection"
          => /\ editors'[ev'.editor].overlays =
                    filtered(editor_states'[ev'.editor], ev'.editor)
             /\ ev'.matches = {} => Idle(editor_states'[ev'.editor])]_vars

\* The place of a key in the alphabet.
key_index(k) == CHOOSE i \in 1..Len(keys) : keys[i] = k

\* Label a comes before label b of the same length in the lexicographic order
\* of the alphabet's keys.
lex_before(a, b) ==
    \E i \in 1..Len(a) :
        /\ key_index(a[i]) < key_index(b[i])
        /\ \A j \in 1..(i - 1) : a[j] = b[j]

\* The labels of the trie grow with the candidates' priority from the cursor.
monotone(trie, cursor) ==
    \A o1, o2 \in trie :
        display_before(candidate(o1), candidate(o2), cursor)
            => /\ Len(o1.seq) <= Len(o2.seq)
               /\ Len(o1.seq) = Len(o2.seq) => lex_before(o1.seq, o2.seq)

\* C18: of two candidates the one ordered first has the label that is not
\* longer, and of two labels of one length the one that comes first in the
\* lexicographic order of the alphabet.
C18_PriorityMonotone ==
    ev.op \in {"word", "vim_word"}
        => monotone(session(editor_states, vim_states, ev.mode, ev.editor).trie,
                    editors[ev.editor].cursor)

\* Five candidates around a cursor in their middle, labelled over three keys
\* with one and with two keys.
C18_Witness ==
    /\ ev.op = "word"
    /\ Len(keys) = 3
    /\ editors[1].cursor = 3
    /\ Cardinality(editor_states[1].trie) = 5
    /\ {Len(o.seq) : o \in editor_states[1].trie} = {1, 2}

\* The place of a candidate in the priority order from the cursor.
rank(trie, o, cursor) ==
    1 + Cardinality({p \in trie : display_before(candidate(p), candidate(o), cursor)})

\* C19: when there are no more candidates than keys (N <= K), the i-th
\* candidate in priority order has the one-key label of the i-th key of the
\* alphabet; every label has length 1 and the last K - N keys are unused.
C19_SingleKeyLabels ==
    LET trie == session(editor_states, vim_states, ev.mode, ev.editor).trie
        N == Cardinality(ev.matches)
    IN ev.op \in {"word", "vim_word"} /\ N <= Len(keys)
          => /\ Cardinality(trie) = N
             /\ \A o \in trie :
                   o.seq = <<keys[rank(trie, o, editors[ev.editor].cursor)]>>
             /\ Labels(trie) = {<<keys[i]>> : i \in 1..N}

\* Three candidates on both sides of the cursor, labelled over four keys.
C19_Witness ==
    /\ ev.op = "word"
    /\ Len(keys) = 4
    /\ editors[1].cursor = 3
    /\ {m.point : m \in ev.matches} = {1, 2, 4}
    /\ Cardinality(editor_states[1].trie) = 3

\* ceil(log_K(n)) for K >= 2 and n >= 1.
ceil_log(K, n) == depth_from(K, n, 0)

\* The length of the longest label of a trie that has one.
max_len(trie) == CHOOSE l \in {Len(o.seq) : o \in trie} : \A o \in trie : Len(o.seq) <= l

\* C20: for K >= 2 and N >= 1 the longest label has ceil(log_K(N)) keys or
\* one more, and no label is longer than ceil(log_K(N)) + 1.
C20_MaxLabelLength ==
    LET trie == session(editor_states, vim_states, ev.mode, ev.editor).trie
        N == Cardinality(ev.matches)
        c == ceil_log(Len(keys), N)
    IN ev.op \in {"word", "vim_word"} /\ Len(keys) >= 2 /\ N >= 1
          => /\ trie # {}
             /\ max_len(trie) \in {c, c + 1}
             /\ \A o \in trie : Len(o.seq) <= c + 1

\* Five candidates over two keys: the longest label has three keys.
C20_Witness ==
    /\ ev.op = "word"
    /\ Len(keys) = 2
    /\ Cardinality(ev.matches) = 5
    /\ max_len(editor_states[1].trie) = 3

\* C21, as the spec states it: no invocation of the core is fatal to the host;
\* word, sub-word, full-word, row, n-char, pattern, PatternSubmit, Cancel and
\* keystrokes all complete without a panic, in every state and layout.
C21_NeverFatal == ~crashed

\* What the search of each editor of a task found, in the editors' order, read
\* from the recorded candidates of a completion.
per_view(found, t) ==
    [k \in 1..Len(t.editors) |-> {m.point : m \in {x \in found : x.id = t.editors[k].id}}]

\* The pixel position of a leaf's candidate in the panes as they are.
leaf_pixel(o) ==
    pixel_of(CHOOSE k \in 1..Len(panes) : panes[k] = o.overlay.editor_id, o.overlay.point)

\* C22: the merged cross-view trie is a function of the per-view candidate
\* lists (in view order) and the reference point only: whatever order the
\* per-view searches complete in, the label-to-candidate assignment stored is
\* the one every other completion order of the same results gives.
C22_MergePure ==
    [][ev'.op = "complete" /\ ev'.mode = "multi" /\ ev'.matches # {}
          => \A i \in 1..Len(tasks) :
                tasks[i].kind = "multi" /\ tasks' = RemoveAt(tasks, i)
                   => \A order \in Permutations(1..Len(tasks[i].editors)) :
                         multipane_state'.trie =
                             process_match_tasks(tasks[i], per_view(ev'.matches, tasks[i]),
                                                 order, editors).state.trie]_vars

\* A cross-view search completed with candidates of two views of which two,
\* one in each view, are equally far from the cursor.
C22_Witness ==
    /\ ev.op = "complete" /\ ev.mode = "multi"
    /\ multipane_state.tag = "Selection"
    /\ active_is_visible
    /\ Involved(multipane_state.trie) \subseteq active_editor_views(panes)
    /\ \E a, b \in multipane_state.trie :
          /\ a.overlay.editor_id # b.overlay.editor_id
          /\ Abs(leaf_pixel(a) - cursor_pixels) = Abs(leaf_pixel(b) - cursor_pixels)

\* C23: the easy-motion keymap context layer of a view is removed with every
\* transition of its session to Idle: in no reachable state is no session in
\* progress (neither cross-view nor of the view) while the view still has the
\* layer of an input state installed.  The layer of the None context, which
\* shadows nothing, is not counted.
C23_LayerFollowsSession ==
    \A e \in EditorIds :
        Idle(multipane_state) /\ Idle(editor_states[e])
            => editors[e].keymap \in {"none", "None"}

\* The candidates that the leaves of a trie label.
covered(trie) == {[point |-> o.overlay.point, id |-> o.overlay.editor_id] : o \in trie}

\* C24: a word or row action invoked while no session is in progress, with at
\* least one candidate in the views it covers, leads to an Active session
\* whose trie covers the candidates, for every direction and every layout,
\* also for a bidirectional row action in a split workspace with several
\* editors.  (The candidates of a cross-view word action are known only when
\* its search completes; that step is not constrained here.)
C24_InvokeLeadsToActive ==
    [][(/\ ev'.op \in {"word", "row"}
        /\ ev'.matches # {}
        /\ Idle(multipane_state)
        /\ \A e \in EditorIds : Idle(editor_states[e]))
          => LET state == IF ev'.mode = "multi" THEN multipane_state'
                          ELSE editor_states'[ev'.editor]
             IN state.tag = "Selection" /\ covered(state.trie) = ev'.matches]_vars

\* The session that governs a handler run: the cross-view slot's, or that of
\* the editor the run was in.
scope_state(ms, es, e) == IF e.mode = "multi" THEN ms ELSE es[e.editor]

\* C25: an n-char session started with count n stays in AwaitingCharInput
\* for the first n-1 keystrokes, recording each key; only the keystroke that
\* satisfies the count starts the search, with the n recorded keys as the
\* query; a keystroke never leads from AwaitingCharInput to AwaitingPattern;
\* and when that search completes (before anything else happens) the session
\* is Active when candidates were found and Idle when none were.
C25_NCharCollects ==
    [][/\ (/\ ev'.op = "keystroke" /\ ev'.mode \in {"single", "multi"} /\ ~crashed'
            /\ scope_state(multipane_state, editor_states, ev').tag = "NCharInput")
          => LET pre == scope_state(multipane_state, editor_states, ev')
                 post == scope_state(multipane_state', editor_states', ev')
                 query == pre.chars \o <<ev'.key>>
             IN IF Len(query) < pre.n
                THEN /\ post.tag = "NCharInput" /\ post.n = pre.n /\ post.chars = query
                     /\ tasks' = tasks
                ELSE /\ post.tag \in {"PendingSearch", "None"}
                     /\ post.tag = "None" => tasks' = tasks
                     /\ post.tag = "PendingSearch"
                          => /\ Len(tasks') = Len(tasks) + 1
                             /\ SubSeq(tasks', 1, Len(tasks)) = tasks
                             /\ tasks'[Len(tasks')].query = query
       /\ (/\ ev.op = "keystroke" /\ ev.res = "ShowTrie"
            /\ scope_state(multipane_state, editor_states, ev).tag = "PendingSearch"
            /\ ev'.op = "complete" /\ ev'.mode = ev.mode
            /\ tasks' = RemoveAt(tasks, Len(tasks)))
          => LET post == scope_state(multipane_state', editor_states', ev)
             IN IF ev'.matches # {} THEN post.tag = "Selection" ELSE Idle(post)]_vars

C27_JoinEveryView ==
    [][ev'.op = "complete" /\ ev'.mode = "multi" /\ ev'.matches # {}
          => /\ multipane_state'.tag = "Selection"
             /\ covered(multipane_state'.trie) = ev'.matches
             /\ Cardinality(multipane_state'.trie) = Cardinality(ev'.matches)]_vars

\* A cross-view search of two views completed; one view found nothing and
\* the candidates of the other are labelled.
C27_Witness ==
    /\ ev.op = "complete" /\ ev.mode = "multi"
    /\ {m.id : m \in ev.matches} = {2}
    /\ multipane_state.tag = "Selection"
    /\ covered(multipane_state.trie) = ev.matches

\* The sequence is a permutation of the set: every element once.
permutation_of(sorted, S) == Len(sorted) = Cardinality(S) /\ SeqToSet(sorted) = S

\* The candidates of a cross-view task as the searches list them.
task_matches(t, found) == flatten(t.editors, per_view(found, t), 1)

\* What C28 says of a word action or a completed cross-view search that found
\* the candidates ev'.matches: the ordered sequence handed to the builder is a
\* permutation of the candidates and, where counted, the trie has one label
\* per candidate.
ordered_once(counted) ==
    /\ ev'.op = "word" /\ ev'.mode = "single"
          => LET found == {m.point : m \in ev'.matches}
                 state == editor_states'[ev'.editor]
             IN /\ permutation_of(sort_matches_display(found,
                                                       editors[ev'.editor].cursor), found)
                /\ counted /\ found # {}
                     => /\ state.tag = "Selection"
                        /\ Cardinality(Labels(state.trie)) = Cardinality(found)
                        /\ covered(state.trie) = ev'.matches
    /\ ev'.op = "complete" /\ ev'.mode = "multi"
          => \A i \in 1..Len(tasks) :
                tasks[i].kind = "multi" /\ tasks' = RemoveAt(tasks, i)
                   => LET list == task_matches(tasks[i], ev'.matches)
                      IN /\ permutation_of(sort_matches_pixel(list, tasks[i].cursor),
                                           SeqToSet(list))
                         /\ Len(list) = Cardinality(ev'.matches)
                         /\ counted /\ ev'.matches # {}
                              => /\ multipane_state'.tag = "Selection"
                                 /\ Cardinality(Labels(multipane_state'.trie))
                                        = Cardinality(ev'.matches)
                                 /\ covered(multipane_state'.trie) = ev'.matches

C29_ReleaseDestroys ==
    [][/\ \A e \in EditorIds :
             ~upgrade(editors'[e]) => Idle(editor_states'[e]) /\ Idle(vim_states'[e])
       /\ (/\ ev'.op \in {"keystroke", "complete"}
            /\ ev'.editor # NoEditor
            /\ ~upgrade(editors[ev'.editor]))
              => UNCHANGED <<editor_states, multipane_state, vim_states, editors>>]_vars

\* The search of a view completed after the view was released.
C29_Witness ==
    /\ ev.op = "complete" /\ ev.mode = "single"
    /\ ~upgrade(editors[ev.editor])
    /\ Idle(editor_states[ev.editor])

\* The labels and the dimming of the operation in progress in editor e.
shown(e) == [overlays |-> editors[e].overlays, highlights |-> editors[e].highlights]
\* The alphabet the leaves of a trie were labelled with.
labelled_with(trie, alphabet) ==
    \A o \in trie : SeqToSet(o.seq) \subseteq SeqToSet(alphabet)

max_label(trie) ==
    CHOOSE n \in 0..(TrieMaxPoint + MaxPoint) :
        /\ \A o \in trie : Len(o.seq) <= n
        /\ trie = {} \/ \E o \in trie : Len(o.seq) = n

\* C31: an Active session terminates.  At every keystroke of a single-view
\* selection (the workspace's or vim's) candidates remain under the typed
\* prefix, which is shorter than the longest label; Changed lengthens the
\* prefix by the key and leaves candidates under it, still short of the
\* longest label; Found and Err make the session Idle; NoChange leaves the
\* selection as it was.  The keys that are not NoChange are thus at most as
\* many as the longest label is long.
C31_SessionTerminates ==
    [][ev'.op = "keystroke" /\ ev'.mode \in {"single", "vim"}
          /\ session(editor_states, vim_states, ev'.mode, ev'.editor).tag = "Selection"
          => LET pre == session(editor_states, vim_states, ev'.mode, ev'.editor)
                 post == session(editor_states', vim_states', ev'.mode, ev'.editor)
             IN /\ remaining(pre) # {}
                /\ Len(pre.typed) < max_label(pre.trie)
                /\ ev'.res \in {"Found", "Changed", "Err", "NoChange"}
                /\ (ev'.res = "Changed"
                       => /\ post.tag = "Selection"
                          /\ post.trie = pre.trie
                          /\ post.typed = pre.typed \o <<ev'.key>>
                          /\ remaining(post) # {}
                          /\ Len(post.typed) < max_label(post.trie))
                /\ (ev'.res \in {"Found", "Err"} => Idle(post))
                /\ (ev'.res = "NoChange" => post = pre)]_vars

\* A selection that a first key narrowed was ended by a second key that no
\* remaining label continues with.
C31_Witness ==
    /\ ev.op = "keystroke" /\ ev.mode \in {"single", "vim"}
    /\ ev.res = "Err"
    /\ Len(ev.typed) = 2
    /\ Idle(session(editor_states, vim_states, ev.mode, ev.editor))

\* The state a keystroke of the workspace's easy motion is routed to: that of
\* the cross-view slot when the slot holds one, else the active editor's.
routed_state ==
    IF multipane_state # NoState THEN multipane_state
    ELSE IF active_editor # NoEditor THEN editor_states[active_editor]
    ELSE StateNone

\* C32: a keystroke received while the session it is routed to awaits its
\* search leaves that session awaiting, with every overlay, cursor and other
\* session as it was and the searches in flight untouched; and the selection
\* a completing search stores has an empty typed prefix: no earlier key is
\* replayed into it.
C32_PendingKeystrokeFrame ==
    [][/\ (ev'.op = "keystroke" /\ routed_state.tag = "PendingSearch")
             => UNCHANGED <<editor_states, multipane_state, editors, tasks, focus,
                            active_editor, panes, crashed>>
       /\ ev'.op = "complete"
             => /\ (multipane_state' # multipane_state /\ multipane_state'.tag = "Selection"
                      => multipane_state'.typed = <<>>)
                /\ \A e \in EditorIds :
                      editor_states'[e] # editor_states[e] /\ editor_states'[e].tag = "Selection"
                         => editor_states'[e].typed = <<>>]_vars

\* A key of the alphabet was typed while the search of the session it was
\* routed to was in flight: the session still awaits it.
C32_Witness ==
    /\ ev.op = "keystroke" /\ ev.res = "none"
    /\ ev.key \in SeqToSet(keys)
    /\ routed_state.tag = "PendingSearch"
    /\ \E i \in 1..Len(tasks) : ~tasks[i].cancelled /\ ~tasks[i].superseded

\* C33: once the cross-view session has ended the slot captures no input:
\* when a single-view selection has just been started in the active view with
\* no cross-view session in progress (the slot empty or holding the Idle value
\* an ended session left), the first keystroke is delivered to that
\* selection's resolver.
C33_SlotReleased ==
    [][(/\ ev.op = "word" /\ ev.mode = "single"
        /\ ev'.op = "keystroke"
        /\ Idle(multipane_state)
        /\ active_editor # NoEditor
        /\ editor_states[active_editor].tag = "Selection"
        /\ editor_states[active_editor].typed = <<>>)
          => /\ ev'.mode = "single"
             /\ ev'.editor = active_editor
             /\ ev'.res \in {"Found", "Changed", "Err", "NoChange"}]_vars

\* The same session state; the Idle values count as one.
same_session(a, b) == a = b \/ (Idle(a) /\ Idle(b))

\* C34: PatternSubmit received while the session it is routed to is not
\* awaiting a pattern (Idle, collecting characters, awaiting its search or
\* Active) leaves every session state and the displayed overlays unchanged.
C34_SubmitFrame ==
    [][ev'.op = "pattern_submit" /\ routed_state.tag # "Pattern"
          => /\ same_session(multipane_state, multipane_state')
             /\ \A e \in EditorIds :
                   /\ same_session(editor_states[e], editor_states'[e])
                   /\ editors'[e].overlays = editors[e].overlays]_vars

\* The overlays of view e are labels that remain in the Active session s.
governed_by(e, s) ==
    s.tag = "Selection" /\ editors[e].overlays \subseteq filtered(s, e)

\* C35: overlays are displayed only for Active sessions: a view that shows an
\* overlay is governed by an Active session, its own or the cross-view one,
\* and the overlays it shows are labels of that session's remaining trie.
C35_OverlaysOnlyActive ==
    \A e \in EditorIds :
        editors[e].overlays # {}
           => governed_by(e, editor_states[e]) \/ governed_by(e, multipane_state)

\* The session is not Active, or labels remain under its typed prefix.
has_candidates(state) == state.tag = "Selection" => remaining(state) # {}

C37_PendingBeforeCompletion ==
    [][/\ (ev'.op = "word" /\ ev'.mode = "multi" /\ ~crashed')
             => /\ multipane_state' = PendingSearch
                /\ Len(tasks') = Len(tasks) + 1
                /\ tasks'[Len(tasks')].kind = "multi"
       /\ (multipane_state'.tag = "PendingSearch" /\ multipane_state.tag # "PendingSearch")
             => ev'.op = "word" /\ Len(tasks') = Len(tasks) + 1
       /\ (ev'.op = "complete" /\ ev'.mode = "multi" /\ ev'.matches # {})
             => /\ Len(tasks') = Len(tasks) - 1
                /\ multipane_state'.tag = "Selection"
                /\ multipane_state'.typed = <<>>
                /\ covered(multipane_state'.trie) = ev'.matches]_vars

\* The only search in flight, a cross-view word search that no later action
\* cancelled or superseded, completed with candidates: the slot is Active.
C37_Witness ==
    /\ ev.op = "complete" /\ ev.mode = "multi" /\ ev.matches # {}
    /\ ~ev.cancelled /\ ~ev.superseded
    /\ tasks = <<>>
    /\ multipane_state.tag = "Selection"
    /\ multipane_state.typed = <<>>

\* C38: a keystroke event that triggered an action, or that arrives while the
\* host has pending keystrokes, reaches neither a resolver nor a recorder: the
\* observers of both crates leave every session state, every overlay and
\* everything else of the editors unchanged.
C38_BoundKeyFrame ==
    [][ev'.key \in {BoundKey, PrefixKey}
          => /\ ev'.op = "unobserved"
             /\ UNCHANGED <<editor_states, multipane_state, vim_states, vim_mode,
                            editors, tasks, focus, active_editor>>]_vars

\* The key bound to an action was reported while a selection was Active that
\* the key, handed on, would have ended.
C38_Witness ==
    /\ ev.op = "unobserved" /\ ev.key = BoundKey
    /\ routed_state.tag = "Selection"
    /\ \E e \in EditorIds : editors[e].overlays # {}

\* C39: in vim's variant the host is restored whenever no session exists for
\* an editor: the cursor of an editor without session state blinks, and Vim
\* is not in the EasyMotion mode when no editor has a session.
C39_VimRestored ==
    /\ \A e \in EditorIds :
          upgrade(editors[e]) /\ vim_states[e] = NoState => editors[e].blink
    /\ (\A e \in EditorIds : vim_states[e] = NoState) => vim_mode # "EasyMotion"

\* The overlays vim shows for the leaves that remain in a state, those at
\* folded points left out.
unfolded_overlays(state, folded) ==
    {[text |-> o.seq, point |-> candidate(o), style |-> o.overlay.style] :
        o \in {x \in remaining(state) : candidate(x) \notin folded}}

\* C40: in vim's variant a Fold or UnFold event of an editor with a session
\* makes the editor's overlays those of the session's remaining labels whose
\* candidate is not folded, and leaves the session state and the rest of the
\* editor as they were; without a session, and for any other editor event,
\* no overlay and no state changes.
C40_FoldRederives ==
    [][ev'.op = "editor_event"
          => LET e == ev'.editor
                 folded == {m.point : m \in ev'.matches}
             IN /\ UNCHANGED <<vim_states, vim_mode, editor_states, multipane_state, tasks>>
                /\ \A o \in EditorIds \ {e} : editors'[o] = editors[o]
                /\ IF ev'.res \in {"Fold", "UnFold"} /\ vim_states[e] # NoState
                   THEN editors'[e] =
                           [editors[e] EXCEPT !.overlays =
                               unfolded_overlays(vim_states[e], folded)]
                   ELSE editors'[e] = editors[e]]_vars

\* A Fold event reached an editor whose selection a key had narrowed, with
\* the point of one remaining candidate folded and another not.
C40_Witness ==
    /\ ev.op = "editor_event" /\ ev.res = "Fold"
    /\ vim_states[2].tag = "Selection"
    /\ vim_states[2].typed # <<>>
    /\ editors[2].overlays # {}
    /\ Cardinality(editors[2].overlays) < Cardinality(remaining(vim_states[2]))
====
